---- MODULE Spec2Model ----
(***************************************************************************)
(* State-machine model of the Agoda scrape orchestration engine:           *)
(*   src/scraper.py   AgodaScraper.navigate / scrape_hotel / scrape_multiple*)
(*   src/utils.py     save_data                                             *)
(*   src/main.py      main                                                  *)
(* and of src/scraper_agoda.py, which carries the same class in one file   *)
(* with a main of its own.                                                 *)
(*                                                                         *)
(* The browser page, the query collaborator and the file system are the    *)
(* environment: every call into them is one step whose outcome (success,   *)
(* exception, number of items returned) is chosen nondeterministically.    *)
(* Of hotel_name only the page.title() call (it may raise) is modelled.     *)
(***************************************************************************)
EXTENDS Integers, Sequences, FiniteSets, TLC

\* ------------------------------------------------------------------ bounds
MaxQuota == 2        \* largest --reviews value tried in single mode
MaxBatchQuota == 1   \* largest --reviews value tried in multiple mode
MaxDeepHotels == 1   \* largest --max-hotels value tried with --reviews above 0
MaxPerPage == 2      \* most items one review page returns in single mode
MaxBatchPerPage == 1 \* most items one review page returns in multiple mode
MaxListing == 2      \* most Listing Records the listing query returns
MaxHotels == 2       \* largest --max-hotels value tried
MaxAttempts == 3     \* largest max_retries tried on a direct navigate call
MaxCands == 2        \* most next-page candidates the locator matches
MaxBatch == 2        \* longest batch handed to save_data directly
MaxSaves == 2        \* most save_data calls made in a row on one path
MaxCalls == 4        \* most session calls made on one scraper or handler
MaxRerunHotels == 1  \* largest --max-hotels value tried on a second run
MaxPages == 3        \* most job-board pages a scrape_jobs run is followed over
MaxJobsPerPage == 2  \* most job posts one job-board page returns

\* --------------------------------------------------------- program constants
DefaultMaxRetries == 3
Origin == "https://www.agoda.com"
CheckpointFile == <<"agoda_reviews.json">>
OutputPath == <<"data/agoda_reviews.json">>
SingleUrl == <<"https://www.agoda.com", "/", "single">>
NoUrl == <<>>        \* --single-url not given (None)

\* the two scripts with a main: src/main.py (with src/scraper.py and
\* src/utils.py) and the single-file src/scraper_agoda.py
Programs == {"main.py", "scraper_agoda.py"}
NoProgram == "none"  \* a method called directly, no main involved

VARIABLES
    entry,              \* which operation the run executes
    program,            \* which script's main runs it
    hp,                 \* the click helper that ran last and what it did
    jb,                 \* frame of JobBoardScraper.scrape_jobs
    single_url,         \* args.single_url
    sess,               \* the scraper's session handles
    world,              \* the browser engine's side and the call history
    max_hotels,         \* args.max_hotels
    reviews_per_hotel,  \* args.reviews
    pc,                 \* control position
    nav,                \* frame of navigate
    hotels_list,        \* scrape_multiple: hotels_list
    target_hotels,      \* scrape_multiple: target_hotels
    i,                  \* scrape_multiple: loop index (1-based)
    results,            \* scrape_multiple: results (the Result Batch)
    sm_ret,             \* how scrape_multiple ended and what it returned
    h,                  \* frame of scrape_hotel
    sv,                 \* frame of save_data
    fs,                 \* the file system
    outcomes,           \* history: how each iterated Listing Record ended
    saves               \* history: checkpoint save_data calls issued so far

vars == <<entry, program, hp, jb, single_url, sess, world, max_hotels, reviews_per_hotel, pc, nav, hotels_list,
          target_hotels, i, results, sm_ret, h, sv, fs, outcomes, saves>>

\* ------------------------------------------------------------ pure helpers
Min(a, b) == IF a <= b THEN a ELSE b
Max(a, b) == IF a >= b THEN a ELSE b

\* Python s[:n] for any integer n
PySliceTo(s, n) ==
    IF n >= 0 THEN SubSeq(s, 1, Min(n, Len(s)))
    ELSE SubSeq(s, 1, Max(0, Len(s) + n))

\* Python str.startswith("/") on a string held as a sequence of pieces
StartsWithSlash(url) == Len(url) > 0 /\ url[1] = "/"

\* the loop handing every link on as it is
ResolveUrlNever(url) == url

\* url = "https://www.agoda.com" + url  when url.startswith("/")
ResolveUrl(url) == IF StartsWithSlash(url) THEN <<Origin>> \o url ELSE url

\* f"{filename}.tmp"
TempOf(filename) == filename \o <<".tmp">>

HotelName(k) ==
    CASE k = 1 -> "h1" [] k = 2 -> "h2" [] k = 3 -> "h3"
      [] k = 4 -> "h4" [] OTHER -> "h5"

NoLink == <<>>
RelLink(k) == <<"/", HotelName(k)>>
AbsLink(k) == <<Origin, "/", HotelName(k)>>

\* the values the listing query can return for data.get("hotels", [])
Listings ==
    UNION {[1..n -> {"none", "rel", "abs"}] : n \in 0..MaxListing}
ListingOf(kinds) ==
    [k \in 1..Len(kinds) |->
        [hotel_link |-> CASE kinds[k] = "none" -> NoLink
                          [] kinds[k] = "rel" -> RelLink(k)
                          [] OTHER -> AbsLink(k)]]

\* the items of one review page
PageItems(page, n) == [k \in 1..n |-> <<page, k>>]

EmptyStats == <<>>
SomeStats == <<"overall_score">>

\* ------------------------------------------------------------ file contents
Tok(t) == [t |-> t, v |-> <<>>]
ObjTok(r) == [t |-> "obj", v |-> <<r>>]
\* json.dump(data, f): the pieces written for a list of results
Serialize(data) ==
    <<Tok("[")>> \o [k \in 1..Len(data) |-> ObjTok(data[k])] \o <<Tok("]")>>

Absent == [exists |-> FALSE, bytes |-> <<>>]
File(bytes) == [exists |-> TRUE, bytes |-> bytes]
Paths == {CheckpointFile, TempOf(CheckpointFile), OutputPath, TempOf(OutputPath)}

\* ------------------------------------------------------------------ frames
\* gotos, fails, waits count the goto calls, the failed attempts and the retry
\* waits; gesture says how the activation gesture of the latest attempt went
NavIdle == [ctx |-> "none", max_retries |-> 0, attempt |-> 0,
            gotos |-> 0, fails |-> 0, waits |-> 0, result |-> "none",
            gesture |-> "none"]
NavCall(ctx, m) == [NavIdle EXCEPT !.ctx = ctx, !.max_retries = m]

\* queries, clicks count the item queries and the page-advance attempts,
\* avail the items the queried pages returned, last those of the latest query,
\* stop says which exit of the loop was taken; stats_queries counts the
\* Overall Statistics queries and stats says how the query went; left is set
\* when an error leaves scrape_hotel although its navigation had succeeded
HIdle == [url |-> <<>>, max_reviews |-> 0, overall_stats |-> EmptyStats,
          all_reviews |-> <<>>, page_num |-> 0, queries |-> 0, clicks |-> 0,
          avail |-> 0, last |-> -1, stop |-> "none",
          stats_queries |-> 0, stats |-> "none", left |-> "none"]
HCall(url, q) == [HIdle EXCEPT !.url = url, !.max_reviews = q, !.page_num = 1]

\* before is the destination as the call found it, status how the call went,
\* caller what the call handed back to its caller
SvIdle == [data |-> <<>>, filename |-> <<>>, pos |-> 0, ret |-> "none",
           before |-> Absent, status |-> "none", caller |-> "none"]
SvCall(data, filename, ret, before) ==
    [data |-> data, filename |-> filename, pos |-> 0, ret |-> ret,
     before |-> before, status |-> "running", caller |-> "none"]

\* scrape_jobs: all_jobs, page_num, has_next_page are its locals; pages
\* lists how the extraction of each visited page went and clicks how each
\* next-page click went, as <<outcome, whether page.url changed>>
JbIdle == [all_jobs |-> <<>>, page_num |-> 0, has_next_page |-> FALSE,
           pages |-> <<>>, clicks |-> <<>>]
JbCall == [JbIdle EXCEPT !.page_num = 1, !.has_next_page = TRUE]

\* a helper's run: ops lists the page and locator calls it made, each with
\* how the call went, ret is what it returned and raised whether an error
\* left it; env holds the outcomes the page had in store for the calls
NoEnv == [none |-> TRUE]
HpIdle == [fn |-> "none", env |-> NoEnv, ops |-> <<>>, ret |-> "none",
           raised |-> FALSE]
Op(name, outcome) == <<name, outcome>>
Ran(fn, ops, ret) ==
    [fn |-> fn, env |-> NoEnv, ops |-> ops, ret |-> ret, raised |-> FALSE]
Raised(fn, ops) ==
    [fn |-> fn, env |-> NoEnv, ops |-> ops, ret |-> "none", raised |-> TRUE]
Pending(fn, e) == [HpIdle EXCEPT !.fn = fn, !.env = e]

\* ----------------------------------------------------------- click helpers
\* how a probe (count() > 0, is_visible(), is_enabled()) can go
Probe == {"yes", "no", "raise"}
OkOrRaise(ok) == IF ok THEN "ok" ELSE "raise"

\* what the page has in store for the calls of the overlay helpers: the two
\* probes, the three actions and the short wait that follows each action
OverlayEnvs ==
    [count : Probe, visible : Probe, click : BOOLEAN, click_wait : BOOLEAN,
     escape : BOOLEAN, escape_wait : BOOLEAN, js : BOOLEAN, js_wait : BOOLEAN]

\* the detection both overlay helpers start with:
\* `backdrop.count() > 0 and backdrop.first.is_visible()`
DetectOverlay(e) ==
    <<Op("backdrop.count", e.count)>> \o
    (IF e.count = "yes" THEN <<Op("backdrop.is_visible", e.visible)>> ELSE <<>>)
OverlayDetected(e) == e.count = "yes" /\ e.visible = "yes"

\* the short waits of the helpers, as they appear in a log of calls
Wait200 == "wait_for_timeout(200)"
Wait300 == "wait_for_timeout(300)"

\* one strategy of an overlay helper: the action and, when it returned, the
\* page.wait_for_timeout call that follows it inside the same try
Strategy(name, act_ok, wait, wait_ok) ==
    <<Op(name, OkOrRaise(act_ok))>> \o
    (IF act_ok THEN <<Op(wait, OkOrRaise(wait_ok))>> ELSE <<>>)

\* the three strategies in turn: `return` is reached only when the action and
\* its wait both returned; an error of either is taken by the except of the
\* strategy (or, for the last one, by the except that ends the helper) and
\* the next strategy runs
OverlayStrategies(e, wait_click, wait_escape, wait_js) ==
    DetectOverlay(e) \o
    (IF OverlayDetected(e)
       THEN Strategy("backdrop.click", e.click, wait_click, e.click_wait) \o
            (IF e.click /\ e.click_wait THEN <<>>
             ELSE Strategy("Escape", e.escape, wait_escape, e.escape_wait) \o
                  (IF e.escape /\ e.escape_wait THEN <<>>
                   ELSE Strategy("evaluate(style)", e.js, wait_js, e.js_wait)))
       ELSE <<>>)

\* AgodaScraper._turn_off_overlay: click the backdrop, else press Escape,
\* else neutralise it by script, each followed by wait_for_timeout(200);
\* every error ends in the outer except
TurnOffOverlay(e) ==
    Ran("_turn_off_overlay", OverlayStrategies(e, Wait200, Wait200, Wait200), "None")

\* helper_fuctions.turn_off_overlay_if_any: the same three strategies, each
\* in its own try, with waits of 300, 300 and 200 ms
turn_off_overlay_if_any(e) ==
    Ran("turn_off_overlay_if_any", OverlayStrategies(e, Wait300, Wait300, Wait200), "None")

\* what the page has in store for AgodaScraper._click_read_all_reviews
RevealEnvs == [visible : Probe, ov : OverlayEnvs, click : BOOLEAN]

\* AgodaScraper._click_read_all_reviews: when the locator is not visible the
\* overlay is dismissed first; then one forced click, whose error is logged
\* and turned into False
ClickReadAllReviews(e) ==
    LET probe == <<Op("is_visible", e.visible)>>
    IN  IF e.visible = "raise"
          THEN Ran("_click_read_all_reviews", probe, "False")
          ELSE Ran("_click_read_all_reviews",
                   probe \o
                   (IF e.visible = "no" THEN TurnOffOverlay(e.ov).ops ELSE <<>>) \o
                   <<Op("click(force)", OkOrRaise(e.click))>>,
                   IF e.click THEN "True" ELSE "False")

\* what the reveal step can come back with
RevealOutcomes == {ClickReadAllReviews(e).ret : e \in RevealEnvs}

\* what the page has in store for try_click_with_strategies
TryClickEnvs ==
    [visible : Probe, enabled : Probe, click : BOOLEAN, force : BOOLEAN]

\* try_click_with_strategies without its outer try
try_click_uncaught(e) ==
    LET forced == <<Op("click(force)", OkOrRaise(e.force))>>
        forcedRet == IF e.force THEN "True" ELSE "False"
        fn == "try_click_with_strategies"
    IN  IF e.visible = "raise" THEN Raised(fn, <<Op("is_visible", "raise")>>)
        ELSE IF e.visible = "no"
          THEN Ran(fn, <<Op("is_visible", "no")>> \o forced, forcedRet)
        ELSE IF e.enabled = "raise"
          THEN Raised(fn, <<Op("is_visible", "yes"), Op("is_enabled", "raise")>>)
        ELSE IF e.enabled = "no"
          THEN Ran(fn, <<Op("is_visible", "yes"), Op("is_enabled", "no")>> \o forced,
                   forcedRet)
        ELSE IF e.click
          THEN Ran(fn, <<Op("is_visible", "yes"), Op("is_enabled", "yes"),
                         Op("click", "ok")>>, "True")
        ELSE Ran(fn, <<Op("is_visible", "yes"), Op("is_enabled", "yes"),
                       Op("click", "raise")>> \o forced, forcedRet)

\* helper_fuctions.try_click_with_strategies: `if locator.is_visible() and
\* locator.is_enabled()` a normal click; when that is skipped or raises, a
\* forced click; a probe that raises lands in the outer except: False
try_click_with_strategies(e) ==
    LET forced == <<Op("click(force)", OkOrRaise(e.force))>>
        forcedRet == IF e.force THEN "True" ELSE "False"
        fn == "try_click_with_strategies"
    IN  IF e.visible = "raise" THEN Ran(fn, <<Op("is_visible", "raise")>>, "False")
        ELSE IF e.visible = "no"
          THEN Ran(fn, <<Op("is_visible", "no")>> \o forced, forcedRet)
        ELSE IF e.enabled = "raise"
          THEN Ran(fn, <<Op("is_visible", "yes"), Op("is_enabled", "raise")>>, "False")
        ELSE IF e.enabled = "no"
          THEN Ran(fn, <<Op("is_visible", "yes"), Op("is_enabled", "no")>> \o forced,
                   forcedRet)
        ELSE IF e.click
          THEN Ran(fn, <<Op("is_visible", "yes"), Op("is_enabled", "yes"),
                         Op("click", "ok")>>, "True")
        ELSE Ran(fn, <<Op("is_visible", "yes"), Op("is_enabled", "yes"),
                       Op("click", "raise")>> \o forced, forcedRet)

\* what a try_click_with_strategies call can come back with
TryClickOutcomes == {try_click_with_strategies(e).ret : e \in TryClickEnvs}

\* what click_read_all_reviews meets: the results of its four
\* try_click_with_strategies calls and of the script click, and how its three
\* waits go (settle before the first attempt, pause after the overlay
\* dismissal, wait after the script click)
ClickRecoveryEnvs ==
    [t1 : TryClickOutcomes, a1 : TryClickOutcomes, t2 : TryClickOutcomes,
     a2 : TryClickOutcomes, js : {"true", "false", "raise"},
     settle_wait : BOOLEAN, pause_wait : BOOLEAN, js_wait : BOOLEAN]

\* helper_fuctions.click_read_all_reviews: a wait for the DOM to settle, text
\* locator, attribute locator, overlay dismissal and a pause, both locators
\* once more, script click and a wait. The first two waits stand outside any
\* try: an error of either leaves the function. The wait after the script
\* click stands in the try of the script click, before `if clicked`: when it
\* raises the function returns False whatever the script click returned
click_read_all_reviews(e) ==
    LET fn == "click_read_all_reviews"
        o0 == <<Op(Wait300, OkOrRaise(e.settle_wait))>>
        o1 == o0 \o <<Op("try_click(text)", e.t1)>>
        o2 == o1 \o <<Op("try_click(attr)", e.a1)>>
        o3 == o2 \o <<Op("turn_off_overlay_if_any", "None"),
                      Op(Wait300, OkOrRaise(e.pause_wait))>>
        o4 == o3 \o <<Op("try_click(text)", e.t2)>>
        o5 == o4 \o <<Op("try_click(attr)", e.a2)>>
        o6 == o5 \o <<Op("evaluate(click)", e.js)>>
        o7 == o6 \o <<Op(Wait200, OkOrRaise(e.js_wait))>>
    IN  IF ~e.settle_wait THEN Raised(fn, o0)
        ELSE IF e.t1 = "True" THEN Ran(fn, o1, "True")
        ELSE IF e.a1 = "True" THEN Ran(fn, o2, "True")
        ELSE IF ~e.pause_wait THEN Raised(fn, o3)
        ELSE IF e.t2 = "True" THEN Ran(fn, o4, "True")
        ELSE IF e.a2 = "True" THEN Ran(fn, o5, "True")
        ELSE IF e.js = "raise" THEN Ran(fn, o6, "False")
        ELSE IF ~e.js_wait THEN Ran(fn, o7, "False")
        ELSE Ran(fn, o7, IF e.js = "true" THEN "True" ELSE "False")

\* how the wait after a successful click can go (scrape_hotel after the
\* reveal click, _click_next_page after a candidate's click): the network goes
\* idle, or wait_for_load_state raises and the fixed delay runs, or the delay
\* raises too
Settles == {"idle", "timeout", "raise"}

\* the calls of the wait, in order, each with how it went
SettleOps(settle) ==
    CASE settle = "idle" -> <<Op("wait_for_load_state", "ok")>>
      [] settle = "timeout" -> <<Op("wait_for_load_state", "raise"),
                                 Op("wait_for_timeout", "ok")>>
      [] OTHER -> <<Op("wait_for_load_state", "raise"),
                    Op("wait_for_timeout", "raise")>>

\* what the page has in store for _click_next_page: whether loc.count()
\* answers, and per matched candidate how is_visible(), the click and the
\* wait after the click go
ProbedCandidates ==
    UNION {[1..n -> [visible : Probe, click_ok : BOOLEAN, settle : Settles]] :
             n \in 0..MaxCands}
NextPageEnvs == [count_ok : BOOLEAN, cands : ProbedCandidates]

RECURSIVE ClickNextPageFrom(_, _)

\* `for i in range(count)` of _click_next_page from candidate k on:
\* is_visible() is probed outside the try, the click inside it; a click
\* that raises is followed by `continue`, one that succeeds by the wait and
\* return True. The fixed delay of the wait runs in the inner bare except
\* but inside the outer try: when it raises, the outer `except: continue`
\* takes it and the loop goes on with the next candidate
ClickNextPageFrom(cands, k) ==
    IF k > Len(cands) THEN Ran("_click_next_page", <<>>, "False")
    ELSE LET probe == <<"is_visible", k, cands[k].visible>>
             waits == [j \in 1..Len(SettleOps(cands[k].settle)) |->
                         <<SettleOps(cands[k].settle)[j][1], k,
                           SettleOps(cands[k].settle)[j][2]>>]
         IN  IF cands[k].visible = "raise"
               THEN Raised("_click_next_page", <<probe>>)
             ELSE IF cands[k].visible = "no"
               THEN [ClickNextPageFrom(cands, k + 1) EXCEPT !.ops = <<probe>> \o @]
             ELSE IF ~cands[k].click_ok
               THEN [ClickNextPageFrom(cands, k + 1)
                       EXCEPT !.ops = <<probe, <<"click", k, "raise">>>> \o @]
             ELSE IF cands[k].settle = "raise"
               THEN [ClickNextPageFrom(cands, k + 1)
                       EXCEPT !.ops = <<probe, <<"click", k, "ok">>>> \o waits \o @]
             ELSE Ran("_click_next_page",
                      <<probe, <<"click", k, "ok">>>> \o waits, "True")

\* AgodaScraper._click_next_page: `count = loc.count()`, `if count == 0:
\* return False`, then the candidate loop
ClickNextPageRun(e) ==
    IF ~e.count_ok THEN Raised("_click_next_page", <<<<"count", 0, "raise">>>>)
    ELSE [ClickNextPageFrom(e.cands, 1)
            EXCEPT !.ops = <<<<"count", 0, Len(e.cands)>>>> \o @]

\* history record of one iteration of the target loop
Outcome(idx, hotel, kind, data) ==
    [idx |-> idx, link |-> hotel.hotel_link, kind |-> kind, data |-> data]

\* scrape_hotel returning the accumulated list without the [:max_reviews] cut
HotelResultUntruncated(f) ==
    [hotel_url |-> f.url,
     overall_statistics |-> f.overall_stats,
     total_reviews_scraped |-> Len(f.all_reviews),
     reviews |-> f.all_reviews]

\* the dictionary scrape_hotel returns
HotelResult(f) ==
    [hotel_url |-> f.url,
     overall_statistics |-> f.overall_stats,
     total_reviews_scraped |-> Len(f.all_reviews),
     reviews |-> PySliceTo(f.all_reviews, f.max_reviews)]

\* ----------------------------------------------------------------- session
\* A handle is 0 (None) or the number of the launch that produced the object.
Stages == <<"playwright", "browser", "context", "page">>
NoSession == [playwright |-> 0, browser |-> 0, context |-> 0, page |-> 0]

\* live: the engine-side objects still running, as <<stage, launch>>;
\* the other fields count what the calls made so far have done; torn lists
\* the teardown calls the latest close() made
NoWorld ==
    [live |-> {}, launched |-> 0, calls |-> 0, closes |-> 0, stale |-> 0,
     idle_state_ops |-> 0, state_file |-> FALSE, last |-> "none",
     raised |-> FALSE, reclose_raised |-> FALSE, torn |-> <<>>]

\* start / start_session / the launch half of load_session: the four
\* assignments in order, the first `upto` of them succeeding and the next
\* one raising; no handle is looked at and none is released first
StartSession(s, w, upto) ==
    LET g == w.launched + 1
        made == {Stages[k] : k \in 1..upto}
    IN  [sess |-> [st \in DOMAIN s |-> IF st \in made THEN g ELSE s[st]],
         world |-> [w EXCEPT !.live = @ \cup {<<st, g>> : st \in made},
                             !.launched = g,
                             !.raised = upto < Len(Stages)]]

\* what one teardown call releases on the engine side
Released(st, g) ==
    CASE st = "context" -> {<<"context", g>>, <<"page", g>>}
      [] st = "browser" -> {<<"browser", g>>, <<"context", g>>, <<"page", g>>}
      [] OTHER -> {<<x, g>> : x \in {Stages[k] : k \in 1..Len(Stages)}}

\* the teardown calls close() makes: one per handle that is not None
CloseOps(s) ==
    SelectSeq(<<"context", "browser", "playwright">>, LAMBDA st : s[st] # 0)

\* close() with every teardown call in a try of its own: a call that raises
\* does not keep the later ones from being made
CloseContinues(s, w, fail_at) ==
    LET ops == CloseOps(s)
        stops == fail_at \in 1..Len(ops)
        done == SelectSeq(ops, LAMBDA st : ~stops \/ st # ops[fail_at])
        gone == UNION {Released(done[k], s[done[k]]) : k \in 1..Len(done)}
        onReleased == {k \in 1..Len(ops) : <<ops[k], s[ops[k]]>> \notin w.live}
    IN  [sess |-> s,
         world |-> [w EXCEPT !.live = @ \ gone,
                             !.closes = @ + 1,
                             !.stale = @ + Cardinality(onReleased),
                             !.raised = stops,
                             !.reclose_raised = @ \/ (w.last = "close" /\ stops),
                             !.torn = ops]]

\* close(): the calls of CloseOps in order; call number fail_at raises (0:
\* none does) and the rest is skipped. No handle is reset.
Close(s, w, fail_at) ==
    LET ops == CloseOps(s)
        stops == fail_at \in 1..Len(ops)
        made == IF stops THEN SubSeq(ops, 1, fail_at) ELSE ops
        done == IF stops THEN SubSeq(ops, 1, fail_at - 1) ELSE ops
        gone == UNION {Released(done[k], s[done[k]]) : k \in 1..Len(done)}
        onReleased == {k \in 1..Len(made) : <<made[k], s[made[k]]>> \notin w.live}
    IN  [sess |-> s,
         world |-> [w EXCEPT !.live = @ \ gone,
                             !.closes = @ + 1,
                             !.stale = @ + Cardinality(onReleased),
                             !.raised = stops,
                             !.reclose_raised = @ \/ (w.last = "close" /\ stops),
                             !.torn = made]]

\* load_session(state_file): without the file it returns start_session();
\* with it the same four assignments run, the context taking the stored state
LoadSession(s, w, upto) == StartSession(s, w, upto)

\* save_session(state_file): `if self.context:` context.storage_state(path=...);
\* the call writes the file when the context is live and the write succeeds,
\* and raises otherwise
SaveSession(s, w, ok) ==
    IF s.context = 0
      THEN [sess |-> s, world |-> [w EXCEPT !.raised = FALSE]]
      ELSE LET written == <<"context", s.context>> \in w.live /\ ok
           IN  [sess |-> s,
                world |-> [w EXCEPT !.idle_state_ops =
                                        IF w.live = {} THEN @ + 1 ELSE @,
                                    !.state_file = @ \/ written,
                                    !.raised = ~written]]

\* -------------------------------------------------------------------- Init
\* the command lines tried: in multiple mode a --reviews value above 0 comes
\* with --max-hotels in 0..MaxDeepHotels, and the larger (and the negative)
\* --max-hotels values come with --reviews 0
Init ==
    /\ entry \in {"single", "multiple", "navigate"}
    /\ program \in IF entry = "navigate" THEN {NoProgram} ELSE Programs
    /\ max_hotels \in IF entry = "multiple" THEN (-1)..MaxHotels ELSE {0}
    /\ reviews_per_hotel \in
          CASE entry = "single" -> (-1)..MaxQuota
            [] entry = "multiple" ->
                 IF max_hotels \in 0..MaxDeepHotels THEN 0..MaxBatchQuota ELSE {0}
            [] OTHER -> {0}
    /\ hp = HpIdle
    /\ jb = JbIdle
    /\ single_url \in IF entry = "single" THEN {NoUrl, SingleUrl} ELSE {NoUrl}
    /\ sess = IF entry = "navigate"
                THEN StartSession(NoSession, NoWorld, Len(Stages)).sess
                ELSE NoSession
    /\ world = IF entry = "navigate"
                 THEN StartSession(NoSession, NoWorld, Len(Stages)).world
                 ELSE NoWorld
    /\ pc = IF entry = "navigate" THEN "navigate" ELSE "main_start"
    /\ nav \in IF entry = "navigate"
                 THEN {NavCall("api", m) : m \in 0..MaxAttempts}
                 ELSE {NavIdle}
    /\ hotels_list = <<>>
    /\ target_hotels = <<>>
    /\ i = 0
    /\ results = <<>>
    /\ sm_ret = [status |-> "none", value |-> <<>>]
    /\ h = HIdle
    /\ sv = SvIdle
    /\ fs = [p \in Paths |-> Absent]
    /\ outcomes = <<>>
    /\ saves = 0

\* ---------------------------------------------------------------- navigate
\* navigate falls out of `for attempt in range(max_retries)` (max_retries <= 0)
NavLoopExit ==
    /\ pc = "navigate"
    /\ nav.attempt >= nav.max_retries
    /\ nav' = [nav EXCEPT !.result = "false"]
    /\ pc' = "nav_done"
    /\ UNCHANGED <<entry, program, hp, jb, single_url, sess, world, max_hotels, reviews_per_hotel, hotels_list,
                   target_hotels, i, results, sm_ret, h, sv, fs, outcomes, saves>>

\* what one attempt does to the frame: goto, settle, activation gesture
\* (whose own failure _activate_page swallows); on failure wait and retry,
\* or re-raise on the last attempt. The retry wait is made inside the except
\* branch, so when the wait itself raises (wait_ok false) its error leaves
\* navigate at once, before the remaining attempts
NavAttempt(f, goto_ok, wait_ok) ==
    IF goto_ok
      THEN [f EXCEPT !.gotos = @ + 1, !.result = "true"]
      ELSE IF f.attempt < f.max_retries - 1
             THEN IF wait_ok
                    THEN [f EXCEPT !.gotos = @ + 1, !.fails = @ + 1,
                                   !.waits = @ + 1, !.attempt = @ + 1]
                    ELSE [f EXCEPT !.gotos = @ + 1, !.fails = @ + 1,
                                   !.waits = @ + 1, !.result = "raised"]
             ELSE [f EXCEPT !.gotos = @ + 1, !.fails = @ + 1, !.result = "raised"]

\* the calls _activate_page makes inside its try, in order
GestureSteps ==
    <<"wait", "PageDown", "wait", "viewport_size", "move", "right_click", "wait">>

\* _activate_page without its try/except
ActivatePageUncaught(fail_at) ==
    [done |-> IF fail_at = 0 THEN Len(GestureSteps) ELSE fail_at - 1,
     raised |-> fail_at # 0]

\* _activate_page: the steps run until step fail_at raises (0: none does);
\* the except branch logs a warning and the method returns normally
ActivatePage(fail_at) ==
    [done |-> IF fail_at = 0 THEN Len(GestureSteps) ELSE fail_at - 1,
     raised |-> FALSE]

\* one pass through the loop body of navigate: goto, settle wait, gesture,
\* and after a failure the retry wait
NavGoto ==
    /\ pc = "navigate"
    /\ nav.attempt < nav.max_retries
    /\ \E goto_ok \in BOOLEAN, wait_ok \in BOOLEAN,
          fail_at \in 0..Len(GestureSteps) :
          LET g == ActivatePage(fail_at)
              how == IF g.done = Len(GestureSteps) THEN "done" ELSE "failed"
          IN  /\ nav' = IF goto_ok
                          THEN [NavAttempt(nav, ~g.raised, wait_ok) EXCEPT !.gesture = how]
                          ELSE [NavAttempt(nav, FALSE, wait_ok) EXCEPT !.gesture = "none"]
              /\ pc' = IF nav'.result = "none" THEN "navigate" ELSE "nav_done"
    /\ UNCHANGED <<entry, program, hp, jb, single_url, sess, world, max_hotels, reviews_per_hotel, hotels_list,
                   target_hotels, i, results, sm_ret, h, sv, fs, outcomes, saves>>

\* scrape_multiple without the try/except around scrape_hotel
NavRaisedUncaught(ctx, e) ==
    IF ctx = "api" THEN "exit" ELSE "main_except"

\* where control goes when navigate raised, by caller: scrape_hotel has no
\* handler, scrape_multiple wraps only the scrape_hotel call, main wraps all
NavRaisedTo(ctx, e) ==
    IF ctx = "hotel" /\ e = "multiple" THEN "loop_tail"
    ELSE IF ctx = "api" THEN "exit" ELSE "main_except"

\* the except branch putting a placeholder result into the batch
ExceptTargetAppends(batch, url) ==
    Append(batch, HotelResult(HCall(url, 0)))

\* `except Exception as e:` around the scrape_hotel call of scrape_multiple:
\* the error is logged; the batch stays as it is
ExceptTarget(batch, url) == batch

\* scrape_hotel raised: what becomes of the batch, by caller
BatchAfterRaise(batch, url, ctx, e) ==
    IF ctx = "hotel" /\ e = "multiple" THEN ExceptTarget(batch, url) ELSE batch

NavReturnedTo(ctx) ==
    CASE ctx = "seed" -> "list_query"
      [] ctx = "hotel" -> "title"
      [] OTHER -> "exit"

\* navigate hands control back to its caller
NavDone ==
    /\ pc = "nav_done"
    /\ pc' = IF nav.result = "raised" THEN NavRaisedTo(nav.ctx, entry)
             ELSE NavReturnedTo(nav.ctx)
    /\ sm_ret' = IF nav.result = "raised" /\ nav.ctx = "seed"
                   THEN [status |-> "raised", value |-> <<>>]
                   ELSE sm_ret
    /\ h' = IF nav.result = "raised" THEN HIdle ELSE h
    /\ outcomes' = IF nav.result = "raised" /\ nav.ctx = "hotel" /\ entry = "multiple"
                     THEN Append(outcomes, Outcome(i, target_hotels[i], "nav_failed", <<>>))
                     ELSE outcomes
    /\ results' = IF nav.result = "raised"
                    THEN BatchAfterRaise(results, h.url, nav.ctx, entry)
                    ELSE results
    /\ nav' = NavIdle
    /\ UNCHANGED <<entry, program, hp, jb, single_url, sess, world, max_hotels, reviews_per_hotel, hotels_list,
                   target_hotels, i, sv, fs, saves>>

\* ------------------------------------------------------------ scrape_hotel
\* the hotel_name line: self.page.title() is read (twice) outside any try, so
\* an error of the page there leaves scrape_hotel like a navigation error
Title ==
    /\ pc = "title"
    /\ \E ok \in BOOLEAN :
          IF ok
            THEN /\ pc' = "reveal"
                 /\ h' = h
                 /\ outcomes' = outcomes
                 /\ results' = results
            ELSE /\ pc' = NavRaisedTo("hotel", entry)
                 /\ h' = [HIdle EXCEPT !.left = "raised"]
                 /\ results' = BatchAfterRaise(results, h.url, "hotel", entry)
                 /\ outcomes' = IF entry = "multiple"
                                  THEN Append(outcomes,
                                              Outcome(i, target_hotels[i], "title_failed", <<>>))
                                  ELSE outcomes
    /\ UNCHANGED <<entry, program, hp, jb, single_url, sess, world, max_hotels, reviews_per_hotel, nav,
                   hotels_list, target_hotels, i, sm_ret, sv, fs, saves>>

\* `if self._click_read_all_reviews():` try wait_for_load_state("networkidle")
\* except: wait_for_timeout(1500); nothing at all when the click returned
\* False. The delay runs inside the bare except and outside any try: when it
\* raises, the error leaves scrape_hotel
RevealSettle(clicked, settle) ==
    IF ~clicked THEN [ops |-> <<>>, raised |-> FALSE]
    ELSE [ops |-> SettleOps(settle), raised |-> settle = "raise"]

\* _click_read_all_reviews and the wait that follows a successful click
Reveal ==
    /\ pc = "reveal"
    /\ \E r \in RevealOutcomes, settle \in Settles :
          LET w == RevealSettle(r = "True", settle)
          IN  IF w.raised
                THEN /\ pc' = NavRaisedTo("hotel", entry)
                     /\ hp' = HpIdle
                     /\ h' = [HIdle EXCEPT !.left = "raised"]
                     /\ results' = BatchAfterRaise(results, h.url, "hotel", entry)
                     /\ outcomes' = IF entry = "multiple"
                                      THEN Append(outcomes,
                                                  Outcome(i, target_hotels[i], "reveal_failed", <<>>))
                                      ELSE outcomes
                ELSE /\ pc' = "stats"
                     /\ hp' = Ran("reveal", w.ops, r)
                     /\ h' = h
                     /\ results' = results
                     /\ outcomes' = outcomes
    /\ UNCHANGED <<entry, program, jb, single_url, sess, world, max_hotels, reviews_per_hotel, nav, hotels_list,
                   target_hotels, i, sm_ret, sv, fs, saves>>

\* a failed Overall Statistics query ending the extraction of the target
AfterStatsFatal(f, ok) ==
    IF ok
      THEN [f EXCEPT !.overall_stats = SomeStats, !.stats_queries = @ + 1,
                     !.stats = "ok"]
      ELSE [f EXCEPT !.stats_queries = @ + 1, !.stats = "failed",
                     !.stop = "error"]

\* overall_stats = {} and then the query inside its own try/except: a query
\* that raises is logged and leaves the empty dictionary
AfterStats(f, ok) ==
    IF ok
      THEN [f EXCEPT !.overall_stats = SomeStats, !.stats_queries = @ + 1,
                     !.stats = "ok"]
      ELSE [f EXCEPT !.overall_stats = EmptyStats, !.stats_queries = @ + 1,
                     !.stats = "failed"]

\* the Overall Statistics query, then on to the collection loop
Stats ==
    /\ pc = "stats"
    /\ \E ok \in BOOLEAN : h' = AfterStats(h, ok)
    /\ pc' = IF h'.stop = "none" THEN "collect" ELSE "hotel_done"
    /\ hp' = HpIdle
    /\ UNCHANGED <<entry, program, jb, single_url, sess, world, max_hotels, reviews_per_hotel, nav, hotels_list,
                   target_hotels, i, results, sm_ret, sv, fs, outcomes, saves>>

\* `while len(all_reviews) < max_reviews` is false: fall through to return
CollectExit ==
    /\ pc = "collect"
    /\ ~(Len(h.all_reviews) < h.max_reviews)
    /\ h' = [h EXCEPT !.stop = "while"]
    /\ pc' = "hotel_done"
    /\ UNCHANGED <<entry, program, hp, jb, single_url, sess, world, max_hotels, reviews_per_hotel, nav, hotels_list,
                   target_hotels, i, results, sm_ret, sv, fs, outcomes, saves>>

\* the collection loop without the `if not reviews: break` test
AfterQueryNoEmptyTest(f, n) ==
    IF n < 0 THEN [f EXCEPT !.queries = @ + 1, !.last = -1, !.stop = "error"]
    ELSE LET all == f.all_reviews \o PageItems(f.page_num, n)
         IN  [f EXCEPT !.queries = @ + 1,
                       !.last = n,
                       !.avail = @ + n,
                       !.all_reviews = all,
                       !.stop = IF Len(all) >= f.max_reviews
                                  THEN "quota" ELSE "none"]

\* the collection loop carrying on after a query that raised
AfterQueryIgnoreError(f, n) ==
    IF n < 0 THEN [f EXCEPT !.queries = @ + 1, !.last = -1]
    ELSE IF n = 0 THEN [f EXCEPT !.queries = @ + 1, !.last = 0, !.stop = "empty"]
    ELSE LET all == f.all_reviews \o PageItems(f.page_num, n)
         IN  [f EXCEPT !.queries = @ + 1,
                       !.last = n,
                       !.avail = @ + n,
                       !.all_reviews = all,
                       !.stop = IF Len(all) >= f.max_reviews
                                  THEN "quota" ELSE "none"]

\* the collection loop advancing the page before it tests the quota
AfterQueryAdvanceFirst(f, n) ==
    IF n < 0 THEN [f EXCEPT !.queries = @ + 1, !.last = -1, !.stop = "error"]
    ELSE IF n = 0 THEN [f EXCEPT !.queries = @ + 1, !.last = 0, !.stop = "empty"]
    ELSE [f EXCEPT !.queries = @ + 1,
                   !.last = n,
                   !.avail = @ + n,
                   !.all_reviews = @ \o PageItems(f.page_num, n)]

\* the frame after the item query returned n items (n = -1: it raised)
AfterQuery(f, n) ==
    IF n < 0 THEN [f EXCEPT !.queries = @ + 1, !.last = -1, !.stop = "error"]
    ELSE IF n = 0 THEN [f EXCEPT !.queries = @ + 1, !.last = 0, !.stop = "empty"]
    ELSE LET all == f.all_reviews \o PageItems(f.page_num, n)
         IN  [f EXCEPT !.queries = @ + 1,
                       !.last = n,
                       !.avail = @ + n,
                       !.all_reviews = all,
                       !.stop = IF Len(all) >= f.max_reviews
                                  THEN "quota" ELSE "none"]

\* one item query of the collection loop, up to the quota check
CollectQuery ==
    /\ pc = "collect"
    /\ Len(h.all_reviews) < h.max_reviews
    /\ \E n \in (-1)..(IF entry = "multiple" THEN MaxBatchPerPage ELSE MaxPerPage) :
          /\ h' = AfterQuery(h, n)
          /\ pc' = IF h'.stop = "none" THEN "next_page" ELSE "hotel_done"
    /\ UNCHANGED <<entry, program, hp, jb, single_url, sess, world, max_hotels, reviews_per_hotel, nav, hotels_list,
                   target_hotels, i, results, sm_ret, sv, fs, outcomes, saves>>

\* the next-page candidates the locator can match: whether the candidate is
\* visible, whether its click returns, and how the wait after the click goes
\* (read only for a candidate that is clicked)
Candidates ==
    UNION {[1..n -> {c \in [visible : BOOLEAN, click_ok : BOOLEAN, settle : Settles] :
                       (c.visible /\ c.click_ok) \/ c.settle = "idle"}] :
             n \in 0..MaxCands}

\* _click_next_page: true iff for some visible candidate the click returns
\* and the wait after it does not raise (a raising wait is taken by the
\* `except: continue` of the candidate loop like a raising click)
ClickNextPage(cands) ==
    \E k \in 1..Len(cands) :
        cands[k].visible /\ cands[k].click_ok /\ cands[k].settle # "raise"

\* the frame after the page-advance step
AfterAdvance(f, advanced) ==
    IF advanced
      THEN [f EXCEPT !.clicks = @ + 1, !.page_num = @ + 1]
      ELSE [f EXCEPT !.clicks = @ + 1, !.stop = "no_next"]

NextPage ==
    /\ pc = "next_page"
    /\ \E cands \in Candidates :
          /\ h' = AfterAdvance(h, ClickNextPage(cands))
          /\ pc' = IF h'.stop = "none" THEN "collect" ELSE "hotel_done"
    /\ UNCHANGED <<entry, program, hp, jb, single_url, sess, world, max_hotels, reviews_per_hotel, nav, hotels_list,
                   target_hotels, i, results, sm_ret, sv, fs, outcomes, saves>>

\* the locator itself raises inside _click_next_page: the loop's except breaks
NextPageRaises ==
    /\ pc = "next_page"
    /\ h' = [h EXCEPT !.clicks = @ + 1, !.stop = "error"]
    /\ pc' = "hotel_done"
    /\ UNCHANGED <<entry, program, hp, jb, single_url, sess, world, max_hotels, reviews_per_hotel, nav, hotels_list,
                   target_hotels, i, results, sm_ret, sv, fs, outcomes, saves>>

\* the file main hands the single result to: args.output in main.py (the
\* default is taken), the literal "agoda_reviews.json" in scraper_agoda.py
SingleSavePath(p) == IF p = "scraper_agoda.py" THEN CheckpointFile ELSE OutputPath

\* scrape_hotel returns to main (single mode): save_data([data], ...)
HotelDoneSingle ==
    /\ pc = "hotel_done"
    /\ entry = "single"
    /\ sv' = SvCall(<<HotelResult(h)>>, SingleSavePath(program), "main_finally",
                    fs[SingleSavePath(program)])
    /\ h' = HIdle
    /\ pc' = "save_open"
    /\ UNCHANGED <<entry, program, hp, jb, single_url, sess, world, max_hotels, reviews_per_hotel, nav, hotels_list,
                   target_hotels, i, results, sm_ret, fs, outcomes, saves>>

\* --------------------------------------------------------- scrape_multiple
\* `results = [data]` in place of results.append(data)
AppendOverwrites(batch, data) == <<data>>

\* what the try body does with the data scrape_hotel returned
AppendResult(batch, data) == Append(batch, data)

\* the try body handing the batch to a save it does not wait for
HotelDoneMultipleAsync ==
    /\ pc = "hotel_done"
    /\ entry = "multiple"
    /\ results' = AppendResult(results, HotelResult(h))
    /\ sv' = SvCall(results', CheckpointFile, "loop_tail", fs[CheckpointFile])
    /\ saves' = saves + 1
    /\ outcomes' = Append(outcomes,
                          Outcome(i, target_hotels[i], "scraped", <<HotelResult(h)>>))
    /\ h' = HIdle
    /\ pc' = "loop_tail"
    /\ UNCHANGED <<entry, program, hp, jb, single_url, sess, world, max_hotels, reviews_per_hotel, nav, hotels_list,
                   target_hotels, i, sm_ret, fs>>

\* the try body without its save_data call: persistence left to main
HotelDoneMultipleDeferred ==
    /\ pc = "hotel_done"
    /\ entry = "multiple"
    /\ results' = AppendResult(results, HotelResult(h))
    /\ outcomes' = Append(outcomes,
                          Outcome(i, target_hotels[i], "scraped", <<HotelResult(h)>>))
    /\ h' = HIdle
    /\ pc' = "loop_tail"
    /\ UNCHANGED <<entry, program, hp, jb, single_url, sess, world, max_hotels, reviews_per_hotel, nav, hotels_list,
                   target_hotels, i, sm_ret, sv, fs, saves>>

\* scrape_hotel returns inside the try: results.append(data); save_data(...)
HotelDoneMultiple ==
    /\ pc = "hotel_done"
    /\ entry = "multiple"
    /\ results' = AppendResult(results, HotelResult(h))
    /\ sv' = SvCall(results', CheckpointFile, "loop_tail", fs[CheckpointFile])
    /\ saves' = saves + 1
    /\ outcomes' = Append(outcomes,
                          Outcome(i, target_hotels[i], "scraped", <<HotelResult(h)>>))
    /\ h' = HIdle
    /\ pc' = "save_open"
    /\ UNCHANGED <<entry, program, hp, jb, single_url, sess, world, max_hotels, reviews_per_hotel, nav, hotels_list,
                   target_hotels, i, sm_ret, fs>>

\* where main goes on when scrape_multiple has returned: main.py keeps the
\* list and saves it, scraper_agoda.py drops it and its try block is over
ScrapeMultipleReturnsTo(p) ==
    IF p = "scraper_agoda.py" THEN "main_finally" ELSE "main_save"

\* `for _ in range(3): self.page.keyboard.press("PageDown")` runs before the
\* try of the listing query and outside any handler: a key press that raises
\* leaves scrape_multiple with the error
ListScrollRaises ==
    /\ pc = "list_query"
    /\ sm_ret' = [status |-> "raised", value |-> <<>>]
    /\ pc' = "main_except"
    /\ UNCHANGED <<entry, program, hp, jb, single_url, sess, world, max_hotels, reviews_per_hotel, nav, hotels_list,
                   target_hotels, i, results, h, sv, fs, outcomes, saves>>

\* the scrolling done, the listing query raises: log and `return []`
ListQueryRaises ==
    /\ pc = "list_query"
    /\ sm_ret' = [status |-> "returned", value |-> <<>>]
    /\ pc' = ScrapeMultipleReturnsTo(program)
    /\ UNCHANGED <<entry, program, hp, jb, single_url, sess, world, max_hotels, reviews_per_hotel, nav, hotels_list,
                   target_hotels, i, results, h, sv, fs, outcomes, saves>>

\* the slice taken after the records without a link are dropped
TargetHotelsLinked(list, n) ==
    PySliceTo(SelectSeq(list, LAMBDA r : r.hotel_link # NoLink), n)

\* the loop running over hotels_list itself
TargetHotelsAll(list, n) == list

\* hotels_list[:max_hotels]
TargetHotels(list, n) == PySliceTo(list, n)

\* the scrolling done, the listing query returns: results = [],
\* target_hotels = hotels_list[:max_hotels]
ListQuery ==
    /\ pc = "list_query"
    /\ \E kinds \in Listings :
          /\ hotels_list' = ListingOf(kinds)
          /\ target_hotels' = TargetHotels(hotels_list', max_hotels)
    /\ results' = <<>>
    /\ i' = 1
    /\ pc' = "loop"
    /\ UNCHANGED <<entry, program, hp, jb, single_url, sess, world, max_hotels, reviews_per_hotel, nav, sm_ret, h, sv, fs, outcomes, saves>>

\* `if not url: continue`
LoopSkip ==
    /\ pc = "loop"
    /\ i <= Len(target_hotels)
    /\ target_hotels[i].hotel_link = NoLink
    /\ i' = i + 1
    /\ outcomes' = Append(outcomes, Outcome(i, target_hotels[i], "skipped", <<>>))
    /\ UNCHANGED <<entry, program, hp, jb, single_url, sess, world, max_hotels, reviews_per_hotel, pc, nav, hotels_list,
                   target_hotels, results, sm_ret, h, sv, fs, saves>>

\* a linked record: resolve the url and enter scrape_hotel -> navigate
LoopScrape ==
    /\ pc = "loop"
    /\ i <= Len(target_hotels)
    /\ target_hotels[i].hotel_link # NoLink
    /\ h' = HCall(ResolveUrl(target_hotels[i].hotel_link), reviews_per_hotel)
    /\ nav' = NavCall("hotel", DefaultMaxRetries)
    /\ pc' = "navigate"
    /\ UNCHANGED <<entry, program, hp, jb, single_url, sess, world, max_hotels, reviews_per_hotel, hotels_list,
                   target_hotels, i, results, sm_ret, sv, fs, outcomes, saves>>

\* end of one iteration (after the try/except): pause, next record
LoopTail ==
    /\ pc = "loop_tail"
    /\ i' = i + 1
    /\ pc' = "loop"
    /\ UNCHANGED <<entry, program, hp, jb, single_url, sess, world, max_hotels, reviews_per_hotel, nav, hotels_list,
                   target_hotels, results, sm_ret, h, sv, fs, outcomes, saves>>

\* the for loop is exhausted: `return results`
LoopReturn ==
    /\ pc = "loop"
    /\ i > Len(target_hotels)
    /\ sm_ret' = [status |-> "returned", value |-> results]
    /\ pc' = ScrapeMultipleReturnsTo(program)
    /\ UNCHANGED <<entry, program, hp, jb, single_url, sess, world, max_hotels, reviews_per_hotel, nav, hotels_list,
                   target_hotels, i, results, h, sv, fs, outcomes, saves>>

\* -------------------------------------------------------------------- main
\* scraper.start() inside main's try
MainStart ==
    /\ pc = "main_start"
    /\ \E upto \in 0..Len(Stages) :
          LET r == StartSession(sess, world, upto)
          IN  /\ sess' = r.sess
              /\ world' = [r.world EXCEPT !.calls = @ + 1, !.last = "start"]
              /\ pc' = IF r.world.raised THEN "main_except" ELSE "main_mode"
    /\ UNCHANGED <<entry, program, hp, jb, single_url, max_hotels, reviews_per_hotel, nav,
                   hotels_list, target_hotels, i, results, sm_ret, h, sv, fs,
                   outcomes, saves>>

\* single mode, `if not args.single_url`: log and return (through finally)
MainEarlyReturn ==
    /\ pc = "main_mode"
    /\ entry = "single"
    /\ single_url = NoUrl
    /\ pc' = "main_finally"
    /\ UNCHANGED <<entry, program, hp, jb, single_url, sess, world, max_hotels, reviews_per_hotel, nav,
                   hotels_list, target_hotels, i, results, sm_ret, h, sv, fs,
                   outcomes, saves>>

\* main calls scrape_hotel(args.single_url, ...) or scrape_multiple(args.url, ...)
MainScrape ==
    /\ pc = "main_mode"
    /\ entry = "single" => single_url # NoUrl
    /\ h' = IF entry = "single" THEN HCall(single_url, reviews_per_hotel) ELSE HIdle
    /\ nav' = NavCall(IF entry = "single" THEN "hotel" ELSE "seed", DefaultMaxRetries)
    /\ pc' = "navigate"
    /\ UNCHANGED <<entry, program, hp, jb, single_url, sess, world, max_hotels, reviews_per_hotel,
                   hotels_list, target_hotels, i, results, sm_ret, sv, fs,
                   outcomes, saves>>

\* main's except branch falling straight out of main
MainExceptSkipsClose == "exit"

\* where main's except branch leaves control: the finally block
MainExceptTo == "main_finally"

\* `finally: scraper.close()`, then main is left
MainFinally ==
    /\ pc = "main_finally"
    /\ \E fail_at \in 0..3 :
          LET r == Close(sess, world, fail_at)
          IN  /\ sess' = r.sess
              /\ world' = [r.world EXCEPT !.calls = @ + 1, !.last = "close"]
    /\ pc' = "exit"
    /\ UNCHANGED <<entry, program, hp, jb, single_url, max_hotels, reviews_per_hotel, nav,
                   hotels_list, target_hotels, i, results, sm_ret, h, sv, fs,
                   outcomes, saves>>

\* main saving the batch only when it holds a result
MainSaveSkipsEmpty ==
    /\ pc = "main_save"
    /\ sv' = IF sm_ret.value = <<>> THEN sv
             ELSE SvCall(sm_ret.value, OutputPath, "main_finally", fs[OutputPath])
    /\ pc' = IF sm_ret.value = <<>> THEN "main_finally" ELSE "save_open"
    /\ UNCHANGED <<entry, program, hp, jb, single_url, sess, world, max_hotels, reviews_per_hotel, nav, hotels_list,
                   target_hotels, i, results, sm_ret, h, fs, outcomes, saves>>

\* main.py in multiple mode: save_data(reviews, output_path)
MainSave ==
    /\ pc = "main_save"
    /\ sv' = SvCall(sm_ret.value, OutputPath, "main_finally", fs[OutputPath])
    /\ pc' = "save_open"
    /\ UNCHANGED <<entry, program, hp, jb, single_url, sess, world, max_hotels, reviews_per_hotel, nav, hotels_list,
                   target_hotels, i, results, sm_ret, h, fs, outcomes, saves>>

\* `except Exception` of main: log critical, then the finally block
MainExcept ==
    /\ pc = "main_except"
    /\ pc' = MainExceptTo
    /\ UNCHANGED <<entry, program, hp, jb, single_url, sess, world, max_hotels, reviews_per_hotel, nav, hotels_list,
                   target_hotels, i, results, sm_ret, h, sv, fs, outcomes, saves>>

\* --------------------------------------------------------------- save_data
\* the except branch without its clean-up of the temp file
SaveFailedKeepsTemp(files, filename, remove_ok) == files

\* `except Exception` of save_data: log, then `if os.path.exists(temp_file):
\* os.remove(temp_file)`; when the removal raises the temp file stays
SaveFailed(files, filename, remove_ok) ==
    IF files[TempOf(filename)].exists /\ ~remove_ok
      THEN files
      ELSE [files EXCEPT ![TempOf(filename)] = Absent]

\* the clean-up of the except branch is left by an error: os.remove is called
\* (the temp file exists) and raises; nothing in save_data handles that
CleanupRaises(files, filename, remove_ok) ==
    files[TempOf(filename)].exists /\ ~remove_ok

\* the temp file copied over the destination and left where it is
ReplaceByCopy(files, filename) ==
    [files EXCEPT ![filename] = files[TempOf(filename)]]

\* os.replace(temp_file, filename)
Replace(files, filename) ==
    [files EXCEPT ![filename] = files[TempOf(filename)],
                  ![TempOf(filename)] = Absent]

\* save_data opening the destination itself for writing
OpenInPlace(files, filename) ==
    [files EXCEPT ![filename] = File(<<>>)]

\* open(temp_file, "w"): creates or truncates the temporary sibling
OpenTemp(files, filename) ==
    [files EXCEPT ![TempOf(filename)] = File(<<>>)]

\* one piece of the serialization reaches the temporary file
WritePiece(files, filename, piece) ==
    [files EXCEPT ![TempOf(filename)] = File(@.bytes \o <<piece>>)]

\* what the caller of save_data gets: the function has no return statement
\* and its except branch does not re-raise, so None whether the data was
\* saved or not; only an error of the clean-up itself reaches the caller
CallerSees(status, cleanup_raised) ==
    IF status = "failed" /\ cleanup_raised THEN "raised" ELSE "None"

\* save_data is left, normally or through its except branch
SaveReturn(f, status, cleanup_raised) ==
    [SvIdle EXCEPT !.data = f.data, !.filename = f.filename,
                   !.before = f.before, !.status = status,
                   !.caller = CallerSees(status, cleanup_raised)]

\* where control goes when save_data raised, by the place its caller
\* expected it back: inside scrape_multiple the try of the target loop takes
\* the error and the iteration ends as usual; in main the except branch runs;
\* a direct caller gets the error where it stands
SaveRaisedTo(ret) ==
    IF ret = "main_finally" THEN "main_except" ELSE ret

\* save_data ends through its except branch
SaveFails(remove_ok) ==
    /\ fs' = SaveFailed(fs, sv.filename, remove_ok)
    /\ sv' = SaveReturn(sv, "failed", CleanupRaises(fs, sv.filename, remove_ok))
    /\ pc' = IF CleanupRaises(fs, sv.filename, remove_ok)
               THEN SaveRaisedTo(sv.ret) ELSE sv.ret

\* open(temp_file, "w") succeeds, or raises
SaveOpen ==
    /\ pc = "save_open"
    /\ \E ok \in BOOLEAN, remove_ok \in BOOLEAN :
          IF ok
            THEN /\ fs' = OpenTemp(fs, sv.filename)
                 /\ pc' = "save_write"
                 /\ sv' = sv
            ELSE SaveFails(remove_ok)
    /\ UNCHANGED <<entry, program, hp, jb, single_url, sess, world, max_hotels, reviews_per_hotel, nav, hotels_list,
                   target_hotels, i, results, sm_ret, h, outcomes, saves>>

\* json.dump writes the next piece, or raises
SaveWrite ==
    /\ pc = "save_write"
    /\ sv.pos < Len(Serialize(sv.data))
    /\ \E ok \in BOOLEAN, remove_ok \in BOOLEAN :
          IF ok
            THEN /\ fs' = WritePiece(fs, sv.filename, Serialize(sv.data)[sv.pos + 1])
                 /\ sv' = [sv EXCEPT !.pos = @ + 1]
                 /\ pc' = "save_write"
            ELSE SaveFails(remove_ok)
    /\ UNCHANGED <<entry, program, hp, jb, single_url, sess, world, max_hotels, reviews_per_hotel, nav, hotels_list,
                   target_hotels, i, results, sm_ret, h, outcomes, saves>>

\* the with block closes the file, then os.replace
SaveReplace ==
    /\ pc = "save_write"
    /\ sv.pos = Len(Serialize(sv.data))
    /\ \E ok \in BOOLEAN, remove_ok \in BOOLEAN :
          IF ok
            THEN /\ fs' = Replace(fs, sv.filename)
                 /\ sv' = SaveReturn(sv, "saved", FALSE)
                 /\ pc' = sv.ret
            ELSE SaveFails(remove_ok)
    /\ UNCHANGED <<entry, program, hp, jb, single_url, sess, world, max_hotels, reviews_per_hotel, nav, hotels_list,
                   target_hotels, i, results, sm_ret, h, outcomes, saves>>

\* the process is killed somewhere inside save_data
Crash ==
    /\ pc \in {"save_open", "save_write"}
    /\ pc' = "crashed"
    /\ UNCHANGED <<entry, program, hp, jb, single_url, sess, world, max_hotels, reviews_per_hotel, nav, hotels_list,
                   target_hotels, i, results, sm_ret, h, sv, fs, outcomes, saves>>

\* -------------------------------------------------------------------- Next
Next ==
    \/ NavLoopExit \/ NavGoto \/ NavDone
    \/ Title \/ Reveal \/ Stats \/ CollectExit \/ CollectQuery
    \/ NextPage \/ NextPageRaises
    \/ HotelDoneSingle \/ HotelDoneMultiple
    \/ ListScrollRaises \/ ListQueryRaises \/ ListQuery
    \/ LoopSkip \/ LoopScrape \/ LoopTail \/ LoopReturn
    \/ MainStart \/ MainEarlyReturn \/ MainScrape
    \/ MainSave \/ MainExcept \/ MainFinally
    \/ SaveOpen \/ SaveWrite \/ SaveReplace \/ Crash

Spec == Init /\ [][Next]_vars

\* ------------------------------------- session calls made on one instance
\* a scraper or handler has been constructed; a state file may be there
InitSession ==
    /\ entry = "session"
    /\ program = NoProgram
    /\ hp = HpIdle
    /\ jb = JbIdle
    /\ single_url = NoUrl
    /\ sess = NoSession
    /\ world \in {[NoWorld EXCEPT !.state_file = b] : b \in BOOLEAN}
    /\ max_hotels = 0
    /\ reviews_per_hotel = 0
    /\ pc = "api"
    /\ nav = NavIdle
    /\ hotels_list = <<>>
    /\ target_hotels = <<>>
    /\ i = 0
    /\ results = <<>>
    /\ sm_ret = [status |-> "none", value |-> <<>>]
    /\ h = HIdle
    /\ sv = SvIdle
    /\ fs = [p \in Paths |-> Absent]
    /\ outcomes = <<>>
    /\ saves = 0

\* start() / start_session()
SessStart ==
    /\ pc = "api"
    /\ world.calls < MaxCalls
    /\ \E upto \in 0..Len(Stages) :
          LET r == StartSession(sess, world, upto)
          IN  /\ sess' = r.sess
              /\ world' = [r.world EXCEPT !.calls = @ + 1, !.last = "start"]
    /\ UNCHANGED <<entry, program, hp, jb, single_url, max_hotels, reviews_per_hotel, pc, nav,
                   hotels_list, target_hotels, i, results, sm_ret, h, sv, fs,
                   outcomes, saves>>

\* load_session(state_file)
SessLoad ==
    /\ pc = "api"
    /\ world.calls < MaxCalls
    /\ \E upto \in 0..Len(Stages) :
          LET r == LoadSession(sess, world, upto)
          IN  /\ sess' = r.sess
              /\ world' = [r.world EXCEPT !.calls = @ + 1, !.last = "load"]
    /\ UNCHANGED <<entry, program, hp, jb, single_url, max_hotels, reviews_per_hotel, pc, nav,
                   hotels_list, target_hotels, i, results, sm_ret, h, sv, fs,
                   outcomes, saves>>

\* save_session(state_file)
SessSaveState ==
    /\ pc = "api"
    /\ world.calls < MaxCalls
    /\ \E ok \in BOOLEAN :
          LET r == SaveSession(sess, world, ok)
          IN  /\ sess' = r.sess
              /\ world' = [r.world EXCEPT !.calls = @ + 1, !.last = "save_session"]
    /\ UNCHANGED <<entry, program, hp, jb, single_url, max_hotels, reviews_per_hotel, pc, nav,
                   hotels_list, target_hotels, i, results, sm_ret, h, sv, fs,
                   outcomes, saves>>

\* close()
SessClose ==
    /\ pc = "api"
    /\ world.calls < MaxCalls
    /\ \E fail_at \in 0..3 :
          LET r == Close(sess, world, fail_at)
          IN  /\ sess' = r.sess
              /\ world' = [r.world EXCEPT !.calls = @ + 1, !.last = "close"]
    /\ UNCHANGED <<entry, program, hp, jb, single_url, max_hotels, reviews_per_hotel, pc, nav,
                   hotels_list, target_hotels, i, results, sm_ret, h, sv, fs,
                   outcomes, saves>>

NextSession == SessStart \/ SessLoad \/ SessSaveState \/ SessClose

SpecSession == InitSession /\ [][NextSession]_vars

\* ------------------------------------------------- save_data called directly
\* a result with no reviews for the k-th hotel
SampleResult(k) == HotelResult(HCall(AbsLink(k), 0))
SaveBatches == {[k \in 1..n |-> SampleResult(k)] : n \in 0..MaxBatch}

\* what an earlier run may have left at the destination
EarlierFile == File(<<Tok("earlier run")>>)

\* save_data(data, filename) is called on a path that is absent or holds an
\* earlier file
InitSave ==
    /\ entry = "save"
    /\ program = NoProgram
    /\ hp = HpIdle
    /\ jb = JbIdle
    /\ single_url = NoUrl
    /\ sess = NoSession
    /\ world = NoWorld
    /\ max_hotels = 0
    /\ reviews_per_hotel = 0
    /\ pc = "save_open"
    /\ nav = NavIdle
    /\ hotels_list = <<>>
    /\ target_hotels = <<>>
    /\ i = 0
    /\ results = <<>>
    /\ sm_ret = [status |-> "none", value |-> <<>>]
    /\ h = HIdle
    /\ \E filename \in {CheckpointFile, OutputPath}, old \in {Absent, EarlierFile} :
          /\ fs = [p \in Paths |-> IF p = filename THEN old ELSE Absent]
          /\ sv \in {SvCall(data, filename, "save_done", old) : data \in SaveBatches}
    /\ outcomes = <<>>
    /\ saves = 1

\* the same call once more: save_data(data, filename) with the same arguments
SaveAgain ==
    /\ pc = "save_done"
    /\ saves < MaxSaves
    /\ sv' = SvCall(sv.data, sv.filename, "save_done", fs[sv.filename])
    /\ saves' = saves + 1
    /\ pc' = "save_open"
    /\ UNCHANGED <<entry, program, hp, jb, single_url, sess, world, max_hotels, reviews_per_hotel, nav,
                   hotels_list, target_hotels, i, results, sm_ret, h, fs, outcomes>>

NextSave == SaveOpen \/ SaveWrite \/ SaveReplace \/ Crash \/ SaveAgain

SpecSave == InitSave /\ [][NextSave]_vars

\* ----------------------------------------- a run after an earlier run
\* what an earlier complete run left at the output path
PreviousOutput == File(Serialize(<<SampleResult(1)>>))

\* main is started with the output of an earlier run in place
InitRerun ==
    /\ entry \in {"single", "multiple", "navigate"}
    /\ program = IF entry = "navigate" THEN NoProgram ELSE "main.py"
    /\ max_hotels \in IF entry = "multiple" THEN 0..MaxRerunHotels ELSE {0}
    /\ reviews_per_hotel \in
          CASE entry = "single" -> (-1)..MaxQuota
            [] entry = "multiple" -> 0..MaxBatchQuota
            [] OTHER -> {0}
    /\ hp = HpIdle
    /\ jb = JbIdle
    /\ single_url \in IF entry = "single" THEN {NoUrl, SingleUrl} ELSE {NoUrl}
    /\ sess = IF entry = "navigate"
                THEN StartSession(NoSession, NoWorld, Len(Stages)).sess
                ELSE NoSession
    /\ world = IF entry = "navigate"
                 THEN StartSession(NoSession, NoWorld, Len(Stages)).world
                 ELSE NoWorld
    /\ pc = IF entry = "navigate" THEN "navigate" ELSE "main_start"
    /\ nav \in IF entry = "navigate"
                 THEN {NavCall("api", m) : m \in 0..MaxAttempts}
                 ELSE {NavIdle}
    /\ hotels_list = <<>>
    /\ target_hotels = <<>>
    /\ i = 0
    /\ results = <<>>
    /\ sm_ret = [status |-> "none", value |-> <<>>]
    /\ h = HIdle
    /\ sv = SvIdle
    /\ fs = [p \in Paths |-> IF p = OutputPath THEN PreviousOutput ELSE Absent]
    /\ outcomes = <<>>
    /\ saves = 0

SpecRerun == InitRerun /\ [][Next]_vars

\* ------------------------------------------------ scrape_jobs (job board)
\* how page.query_data can go for the job query: it raises, it returns a
\* dictionary without the job_posts key, or one with n job posts
JobPage(kind, n) == [kind |-> kind, n |-> n]
JobPageOutcomes ==
    {JobPage("raise", 0), JobPage("no_key", 0)} \cup
    {JobPage("posts", n) : n \in 0..MaxJobsPerPage}

\* BrowserHandler.extract_data: the data of the query, {} when it raised
extract_data(outcome, page) ==
    CASE outcome.kind = "raise" -> [keys |-> {}, job_posts |-> <<>>]
      [] outcome.kind = "no_key" -> [keys |-> {"other"}, job_posts |-> <<>>]
      [] OTHER -> [keys |-> {"job_posts"}, job_posts |-> PageItems(page, outcome.n)]

\* `if data and 'job_posts' in data: all_jobs.extend(data['job_posts'])`
AfterExtract(f, outcome) ==
    LET data == extract_data(outcome, f.page_num)
    IN  IF data.keys # {} /\ "job_posts" \in data.keys
          THEN [f EXCEPT !.all_jobs = @ \o data.job_posts,
                         !.pages = Append(@, outcome)]
          ELSE [f EXCEPT !.pages = Append(@, outcome)]

\* how the next-page click can go inside find_and_click
ClickOutcomes == {"query_raises", "not_found", "click_raises", "clicked"}

\* BrowserHandler.find_and_click: True when the element was found and its
\* click went through; False when it was not found or anything raised
find_and_click(outcome) == outcome = "clicked"

\* the loop giving up after a page that added no job post
AfterClickStopsOnEmpty(f, outcome, url_changed) ==
    LET page == f.pages[Len(f.pages)]
        empty == page.n = 0
    IN  IF find_and_click(outcome) /\ url_changed /\ ~empty
          THEN [f EXCEPT !.page_num = @ + 1, !.has_next_page = TRUE,
                         !.clicks = Append(@, <<outcome, url_changed>>)]
          ELSE [f EXCEPT !.has_next_page = FALSE,
                         !.clicks = Append(@, <<outcome, url_changed>>)]

\* `if next_clicked and page.url != current_url:` page_num += 1, go on;
\* else has_next_page = False
AfterClick(f, outcome, url_changed) ==
    IF find_and_click(outcome) /\ url_changed
      THEN [f EXCEPT !.page_num = @ + 1, !.has_next_page = TRUE,
                     !.clicks = Append(@, <<outcome, url_changed>>)]
      ELSE [f EXCEPT !.has_next_page = FALSE,
                     !.clicks = Append(@, <<outcome, url_changed>>)]

JobsFrame ==
    UNCHANGED <<entry, program, hp, single_url, max_hotels, reviews_per_hotel, nav,
                hotels_list, target_hotels, i, results, sm_ret, h, sv, fs,
                outcomes, saves>>

\* a JobBoardScraper has been constructed; the state file may be there
InitJobs ==
    /\ entry = "jobs"
    /\ program = NoProgram
    /\ hp = HpIdle
    /\ jb = JbIdle
    /\ single_url = NoUrl
    /\ sess = NoSession
    /\ world \in {[NoWorld EXCEPT !.state_file = b] : b \in BOOLEAN}
    /\ max_hotels = 0
    /\ reviews_per_hotel = 0
    /\ pc = "jobs_load"
    /\ nav = NavIdle
    /\ hotels_list = <<>>
    /\ target_hotels = <<>>
    /\ i = 0
    /\ results = <<>>
    /\ sm_ret = [status |-> "none", value |-> <<>>]
    /\ h = HIdle
    /\ sv = SvIdle
    /\ fs = [p \in Paths |-> Absent]
    /\ outcomes = <<>>
    /\ saves = 0

\* page = self.browser.load_session(self.state_file); the page object it
\* returns is not empty, so `if not page` does not fire; then the locals
JobsLoad ==
    /\ pc = "jobs_load"
    /\ \E upto \in 0..Len(Stages) :
          LET r == LoadSession(sess, world, upto)
          IN  /\ sess' = r.sess
              /\ world' = [r.world EXCEPT !.calls = @ + 1, !.last = "load"]
              /\ pc' = IF r.world.raised THEN "jobs_raised" ELSE "jobs_goto"
              /\ jb' = IF r.world.raised THEN jb ELSE JbCall
    /\ JobsFrame

\* page.goto(self.target_url), outside any try
JobsGoto ==
    /\ pc = "jobs_goto"
    /\ \E ok \in BOOLEAN : pc' = IF ok THEN "jobs_extract" ELSE "jobs_raised"
    /\ UNCHANGED <<jb, sess, world>>
    /\ JobsFrame

\* one pass of the loop up to the click: extract_data and the extend
JobsExtract ==
    /\ pc = "jobs_extract"
    /\ jb.page_num <= MaxPages
    /\ \E outcome \in JobPageOutcomes : jb' = AfterExtract(jb, outcome)
    /\ pc' = "jobs_click"
    /\ UNCHANGED <<sess, world>>
    /\ JobsFrame

\* find_and_click on the next-page button and the url comparison; when
\* has_next_page is False the while loop ends and all_jobs is returned
JobsClick ==
    /\ pc = "jobs_click"
    /\ \E outcome \in ClickOutcomes, url_changed \in BOOLEAN :
          jb' = AfterClick(jb, outcome, url_changed)
    /\ pc' = IF jb'.has_next_page THEN "jobs_extract" ELSE "jobs_done"
    /\ UNCHANGED <<sess, world>>
    /\ JobsFrame

NextJobs == JobsLoad \/ JobsGoto \/ JobsExtract \/ JobsClick

SpecJobs == InitJobs /\ [][NextJobs]_vars

\* ------------------------------------------- click helpers called directly
\* one call of one helper on a page whose answers are drawn from the
\* helper's environment set
HelperCalls ==
    {Pending("_turn_off_overlay", e) : e \in OverlayEnvs} \cup
    {Pending("turn_off_overlay_if_any", e) : e \in OverlayEnvs} \cup
    {Pending("_click_read_all_reviews", e) : e \in RevealEnvs} \cup
    {Pending("try_click_with_strategies", e) : e \in TryClickEnvs} \cup
    {Pending("click_read_all_reviews", e) : e \in ClickRecoveryEnvs} \cup
    {Pending("_click_next_page", e) : e \in NextPageEnvs}

\* the helpers that are methods of AgodaScraper and work on self.page; the
\* others are module-level functions that are handed the page
PageMethods == {"_turn_off_overlay", "_click_read_all_reviews", "_click_next_page"}

\* a helper is about to be called; a method of the scraper is called on a
\* scraper whose start() has gone through, so that self.page is a live page
InitHelpers ==
    /\ entry = "helper"
    /\ program = NoProgram
    /\ hp \in HelperCalls
    /\ jb = JbIdle
    /\ single_url = NoUrl
    /\ sess = IF hp.fn \in PageMethods
                THEN StartSession(NoSession, NoWorld, Len(Stages)).sess
                ELSE NoSession
    /\ world = IF hp.fn \in PageMethods
                 THEN StartSession(NoSession, NoWorld, Len(Stages)).world
                 ELSE NoWorld
    /\ max_hotels = 0
    /\ reviews_per_hotel = 0
    /\ pc = "helper_call"
    /\ nav = NavIdle
    /\ hotels_list = <<>>
    /\ target_hotels = <<>>
    /\ i = 0
    /\ results = <<>>
    /\ sm_ret = [status |-> "none", value |-> <<>>]
    /\ h = HIdle
    /\ sv = SvIdle
    /\ fs = [p \in Paths |-> Absent]
    /\ outcomes = <<>>
    /\ saves = 0

\* the helper runs to its end; the frame keeps what the page had in store
Returned(run, e) == [run EXCEPT !.env = e]

HelperFrame ==
    UNCHANGED <<entry, program, jb, single_url, sess, world, max_hotels, reviews_per_hotel,
                nav, hotels_list, target_hotels, i, results, sm_ret, h, sv, fs,
                outcomes, saves>>

RunTurnOffOverlay ==
    /\ pc = "helper_call"
    /\ hp.fn = "_turn_off_overlay"
    /\ hp' = Returned(TurnOffOverlay(hp.env), hp.env)
    /\ pc' = "helper_done"
    /\ HelperFrame

RunTurnOffOverlayIfAny ==
    /\ pc = "helper_call"
    /\ hp.fn = "turn_off_overlay_if_any"
    /\ hp' = Returned(turn_off_overlay_if_any(hp.env), hp.env)
    /\ pc' = "helper_done"
    /\ HelperFrame

RunClickReadAllReviews ==
    /\ pc = "helper_call"
    /\ hp.fn = "_click_read_all_reviews"
    /\ hp' = Returned(ClickReadAllReviews(hp.env), hp.env)
    /\ pc' = "helper_done"
    /\ HelperFrame

RunTryClick ==
    /\ pc = "helper_call"
    /\ hp.fn = "try_click_with_strategies"
    /\ hp' = Returned(try_click_with_strategies(hp.env), hp.env)
    /\ pc' = "helper_done"
    /\ HelperFrame

RunClickRecovery ==
    /\ pc = "helper_call"
    /\ hp.fn = "click_read_all_reviews"
    /\ hp' = Returned(click_read_all_reviews(hp.env), hp.env)
    /\ pc' = "helper_done"
    /\ HelperFrame

RunClickNextPage ==
    /\ pc = "helper_call"
    /\ hp.fn = "_click_next_page"
    /\ hp' = Returned(ClickNextPageRun(hp.env), hp.env)
    /\ pc' = "helper_done"
    /\ HelperFrame

NextHelpers ==
    \/ RunTurnOffOverlay
    \/ RunTurnOffOverlayIfAny
    \/ RunClickReadAllReviews
    \/ RunTryClick
    \/ RunClickRecovery
    \/ RunClickNextPage

SpecHelpers == InitHelpers /\ [][NextHelpers]_vars

\* ================================================================== claims
InSave == pc \in {"save_open", "save_write", "crashed"}

\* the content is one whole serialization of some list of results
Complete(file) ==
    file.exists =>
        /\ Len(file.bytes) >= 2
        /\ file.bytes[1] = Tok("[")
        /\ file.bytes[Len(file.bytes)] = Tok("]")
        /\ \A k \in 2..(Len(file.bytes) - 1) : file.bytes[k].t = "obj"

\* C1: for every quota Q >= 0 the item sequence scrape_hotel returns has
\* length min(Q, items returned by the pages it queried) and never exceeds Q
C1_QuotaLength ==
    (pc = "hotel_done" /\ h.max_reviews >= 0) =>
        /\ Len(HotelResult(h).reviews) = Min(h.max_reviews, h.avail)
        /\ Len(HotelResult(h).reviews) <= h.max_reviews

\* scrape_hotel returns after the last page carried the count past the quota
C1_Witness ==
    /\ pc = "hotel_done"
    /\ h.max_reviews >= 1
    /\ h.avail > h.max_reviews
    /\ h.page_num >= 2

\* C2: in every result scrape_hotel returns, total_reviews_scraped equals the
\* length of the returned item sequence
C2_TotalEqualsLength ==
    pc = "hotel_done" =>
        HotelResult(h).total_reviews_scraped = Len(HotelResult(h).reviews)

\* C3: at every point of save_data, a crash included, the destination holds
\* the whole previous content or the whole new content; unfinished content
\* exists only in the temporary sibling
C3_CrashSafe ==
    /\ \A p \in {CheckpointFile, OutputPath} : Complete(fs[p])
    /\ InSave => fs[sv.filename] \in {sv.before, File(Serialize(sv.data))}

\* the process died with a partly written temporary file beside an older
\* destination
C3_Witness ==
    /\ pc = "crashed"
    /\ sv.before.exists
    /\ fs[sv.filename] = sv.before
    /\ fs[TempOf(sv.filename)].exists
    /\ Len(fs[TempOf(sv.filename)].bytes) \in 1..(Len(Serialize(sv.data)) - 1)

\* the results the history says were produced, in iteration order
RECURSIVE DataOf(_)
DataOf(os) == IF os = <<>> THEN <<>> ELSE Head(os).data \o DataOf(Tail(os))

IsScraped(o) == o.kind = "scraped"
IsProcessed(o) == o.kind # "skipped"
HasNavFailure == \E k \in 1..Len(outcomes) : outcomes[k].kind = "nav_failed"

\* "the first n records" of a listing, n a count
FirstTargets(list, n) == SubSeq(list, 1, Min(Max(n, 0), Len(list)))

\* how many results of a batch carry the url
CountFor(batch, url) ==
    Cardinality({j \in 1..Len(batch) : batch[j].hotel_url = url})

\* C4: a target whose navigation exhausted its retries is caught inside
\* scrape_multiple: the run goes on (main's except branch is not reached
\* before scrape_multiple has returned), every later target is iterated, and
\* the batch returned is the results of the targets that succeeded, in order
C4_BatchResilience ==
    (entry = "multiple" /\ HasNavFailure) =>
        /\ pc = "main_except" => sm_ret.status = "returned"
        /\ sm_ret.status # "raised"
        /\ results = DataOf(outcomes)
        /\ sm_ret.status = "returned" =>
              /\ Len(outcomes) = Len(target_hotels)
              /\ \A k \in 1..Len(outcomes) : outcomes[k].idx = k
              /\ sm_ret.value = DataOf(outcomes)

\* scrape_multiple returned a batch holding the result of a target that
\* came after a target whose navigation failed
C4_Witness ==
    /\ sm_ret.status = "returned"
    /\ \E j, k \in 1..Len(outcomes) :
          /\ j < k
          /\ outcomes[j].kind = "nav_failed"
          /\ outcomes[k].kind = "scraped"
          /\ CountFor(sm_ret.value, ResolveUrl(outcomes[k].link)) = 1

\* C5 as stated: every linked record among the first maxTargets has exactly
\* one result in the returned batch, aborted targets included
C5_OneResultPerLinkedTarget ==
    sm_ret.status = "returned" =>
        \A k \in 1..Len(FirstTargets(hotels_list, max_hotels)) :
            hotels_list[k].hotel_link # NoLink =>
                CountFor(sm_ret.value, ResolveUrl(hotels_list[k].hotel_link)) = 1

\* C5 amended: every linked record among the first maxTargets has exactly
\* one result in the returned batch when its scrape_hotel returned, and none
\* when its navigation failed (or scrape_hotel raised otherwise)
C5_OneResultPerReturnedTarget ==
    sm_ret.status = "returned" =>
        \A k \in 1..Len(FirstTargets(hotels_list, max_hotels)) :
            hotels_list[k].hotel_link # NoLink =>
                /\ k <= Len(outcomes)
                /\ outcomes[k].kind \in {"scraped", "nav_failed", "title_failed",
                                          "reveal_failed"}
                /\ CountFor(sm_ret.value, ResolveUrl(hotels_list[k].hotel_link))
                      = IF outcomes[k].kind = "scraped" THEN 1 ELSE 0

\* a batch was returned after two linked targets, one scraped and one aborted
C5_Witness ==
    /\ sm_ret.status = "returned"
    /\ max_hotels >= 2
    /\ Len(sm_ret.value) = 1
    /\ \E j, k \in 1..Len(outcomes) :
          outcomes[j].kind = "scraped" /\ outcomes[k].kind = "nav_failed"

\* C6 as stated: between two targets, one checkpoint write has been issued
\* for every processed target, aborted ones included
C6_SaveAfterEveryTarget ==
    (entry = "multiple" /\ pc \in {"loop_tail", "loop"}) =>
        saves = Len(SelectSeq(outcomes, IsProcessed))

AfterCheckpoint ==
    pc \in {"loop_tail", "loop", "navigate", "nav_done", "title", "reveal", "stats",
            "collect", "next_page", "hotel_done", "main_save"}

\* C6 amended: one checkpoint save is issued for every target whose
\* extraction returned; it receives the entire batch, and it has returned
\* (leaving the batch at the checkpoint path unless the write failed) before
\* the next target is navigated; none is issued for an aborted target
C6_SaveAfterEveryResult ==
    entry = "multiple" =>
        /\ saves = Len(SelectSeq(outcomes, IsScraped))
        /\ results # <<>> => sv.data = results
        /\ (results # <<>> /\ AfterCheckpoint) =>
              /\ sv.filename = CheckpointFile
              /\ sv.status \in {"saved", "failed"}
              /\ sv.status = "saved" =>
                    fs[CheckpointFile] = File(Serialize(results))

\* the second target's navigation starts with the first result checkpointed
C6_Witness ==
    /\ entry = "multiple"
    /\ pc = "navigate"
    /\ nav.ctx = "hotel"
    /\ nav.gotos = 0
    /\ Len(results) = 1
    /\ sv.status = "saved"
    /\ fs[CheckpointFile] = File(Serialize(results))

\* the listing query has returned and the target loop is set up
ListingKnown == entry = "multiple" /\ i >= 1

\* what C7 says of a run, given the records it is to iterate
TargetsInOrder(expected) ==
    /\ target_hotels = expected
    /\ \A k \in 1..Len(outcomes) :
          /\ outcomes[k].idx = k
          /\ outcomes[k].link = hotels_list[k].hotel_link
          /\ outcomes[k].kind = "scraped" =>
                outcomes[k].data[1].hotel_url = ResolveUrl(hotels_list[k].hotel_link)
    /\ results = DataOf(outcomes)
    /\ sm_ret.status = "returned" =>
          Len(outcomes) = Len(expected) /\ sm_ret.value = results

\* C7 as stated: the records iterated are exactly the first maxTargets of the
\* listing, in order, and the batch is in processing order
C7_FirstMaxTargets ==
    ListingKnown => TargetsInOrder(FirstTargets(hotels_list, max_hotels))

\* C7 amended: the same, for maxTargets >= 0
C7_FirstMaxTargetsNonNegative ==
    (ListingKnown /\ max_hotels >= 0) =>
        TargetsInOrder(FirstTargets(hotels_list, max_hotels))

\* the listing held more records than maxTargets and the run returned
\* results for the first maxTargets only
C7_Witness ==
    /\ sm_ret.status = "returned"
    /\ max_hotels >= 1
    /\ Len(hotels_list) > max_hotels
    /\ Len(sm_ret.value) = max_hotels

\* C8: when the query of page N returns no item, collection stops there:
\* N queries were made, N-1 page advances, and the items kept are all the
\* items of pages 1..N-1, whatever quota remains
C8_EmptyPageStops ==
    h.last = 0 =>
        /\ pc = "hotel_done"
        /\ h.stop = "empty"
        /\ h.queries = h.page_num
        /\ h.clicks = h.page_num - 1
        /\ Len(h.all_reviews) < h.max_reviews
        /\ Len(h.all_reviews) = h.avail
        /\ HotelResult(h).reviews = h.all_reviews
        /\ \A k \in 1..Len(h.all_reviews) : h.all_reviews[k][1] \in 1..(h.page_num - 1)
        /\ \A p \in 1..(h.page_num - 1) :
              \E k \in 1..Len(h.all_reviews) : h.all_reviews[k][1] = p

\* the second page came back empty with quota left
C8_Witness ==
    /\ h.last = 0
    /\ h.page_num >= 2
    /\ Len(h.all_reviews) >= 1
    /\ Len(h.all_reviews) < h.max_reviews

\* C9: for maxAttempts >= 1 navigate makes at most maxAttempts goto calls,
\* stops at the first success, waits once after every failed attempt but the
\* last and then retries, and raises exactly when all maxAttempts attempts
\* failed
C9_NavigateRetries ==
    (pc \in {"navigate", "nav_done"} /\ nav.max_retries >= 1) =>
        /\ nav.gotos <= nav.max_retries
        /\ nav.result # "false"
        /\ nav.waits = Min(nav.fails, nav.max_retries - 1)
        /\ nav.result = "true" => (pc = "nav_done" /\ nav.gotos = nav.fails + 1)
        /\ nav.result = "raised" <=> nav.fails = nav.max_retries
        /\ nav.result = "raised" => (pc = "nav_done" /\ nav.gotos = nav.fails)
        /\ nav.result = "none" => (pc = "navigate" /\ nav.gotos = nav.fails)

\* C10: a fatal navigation error never makes scrape_multiple raise
C10_ScrapeMultipleNeverRaises ==
    entry = "multiple" => sm_ret.status # "raised"

\* scrape_hotel is running for a target of scrape_multiple
InTarget ==
    /\ entry = "multiple"
    /\ pc \in {"navigate", "nav_done", "title", "reveal", "stats", "collect",
               "next_page", "hotel_done"}
    /\ nav.ctx # "seed"

\* C11: the url scrape_hotel receives is the site origin followed by the
\* link when the link is site-relative, and the link itself when it is
\* absolute; the result carries that url
C11_LinkResolution ==
    /\ InTarget =>
          LET link == target_hotels[i].hotel_link
          IN  /\ link[1] = "/" => h.url = <<Origin>> \o link
              /\ link[1] # "/" => h.url = link
    /\ \A k \in 1..Len(outcomes) :
          outcomes[k].kind = "scraped" =>
              LET link == outcomes[k].link
                  url == outcomes[k].data[1].hotel_url
              IN  /\ link[1] = "/" => url = <<Origin>> \o link
                  /\ link[1] # "/" => url = link

\* a relative link was scraped under its rewritten url and an absolute link
\* is being scraped under the link itself
C11_Witness ==
    /\ InTarget
    /\ Len(outcomes) = 1
    /\ outcomes[1].kind = "scraped"
    /\ outcomes[1].link = RelLink(1)
    /\ outcomes[1].data[1].hotel_url = <<Origin, "/", "h1">>
    /\ target_hotels[i].hotel_link = AbsLink(2)
    /\ h.url = AbsLink(2)

\* C20: when an item query raises, collection ends there: no further query
\* or page advance, and the result keeps the items of the earlier pages
C20_QueryErrorStops ==
    (h.queries >= 1 /\ h.last = -1) =>
        /\ pc = "hotel_done"
        /\ h.stop = "error"
        /\ h.queries = h.page_num
        /\ h.clicks = h.page_num - 1
        /\ Len(h.all_reviews) = h.avail
        /\ HotelResult(h).reviews = h.all_reviews
        /\ Len(HotelResult(h).reviews) <= h.max_reviews
        /\ \A k \in 1..Len(h.all_reviews) : h.all_reviews[k][1] \in 1..(h.page_num - 1)

\* the query of the second page raised after the first page gave items
C20_Witness ==
    /\ pc = "hotel_done"
    /\ h.last = -1
    /\ h.queries = 2
    /\ Len(h.all_reviews) >= 1

\* C18: every save_data call of a run of main writes to the output path
C18_WritesGoToOutputPath ==
    (entry \in {"single", "multiple"} /\ sv.status # "none") =>
        sv.filename = OutputPath

\* C13: a failure inside save_data reaches the caller as a raised error
C13_FailureSurfaced ==
    sv.status = "failed" => sv.caller = "raised"

\* a checkpoint save_data call has been made and it was made for the target
\* the loop is finishing
SavedForThisTarget ==
    /\ sv.filename = CheckpointFile
    /\ sv.data # <<>>
    /\ sv.data[Len(sv.data)].hotel_url = ResolveUrl(target_hotels[i].hotel_link)

\* what C14 says of the files after a save that failed
FailedSaveLeavesNoTemp ==
    sv.status = "failed" =>
        /\ fs[TempOf(sv.filename)] = Absent
        /\ fs[sv.filename] = sv.before

\* the same, but for a temp file whose removal itself raised
FailedSaveLeavesNoTempUnlessRemovalRaised ==
    sv.status = "failed" =>
        /\ sv.caller # "raised" => fs[TempOf(sv.filename)] = Absent
        /\ sv.caller = "raised" => fs[TempOf(sv.filename)].exists
        /\ fs[sv.filename] = sv.before

\* what C14 says of the crawl around a save that failed: scrape_multiple is
\* not left by an error and iterates every target
CrawlGoesOn ==
    /\ (entry = "multiple" /\ sv.status = "failed") =>
          /\ pc = "main_except" => sm_ret.status = "returned"
          /\ sv.filename = CheckpointFile => pc \notin {"main_except", "crashed"}
          /\ sm_ret.status # "raised"
          /\ sm_ret.status = "returned" => Len(outcomes) = Len(target_hotels)
    /\ (entry = "multiple" /\ sv.filename = CheckpointFile) =>
          sv.data = results /\ results = DataOf(outcomes)

\* the loop is finishing a linked target while the checkpoint file does not
\* hold the batch
UnsavedAtLoopTail ==
    /\ entry = "multiple"
    /\ pc = "loop_tail"
    /\ results # <<>>
    /\ fs[CheckpointFile] # File(Serialize(results))

\* C14 as stated: after a failed save no temp file remains, the destination
\* is as before, the crawl goes on, and the next target issues a checkpoint
\* write of the whole batch
C14_NextTargetRetries ==
    /\ FailedSaveLeavesNoTemp
    /\ CrawlGoesOn
    /\ UnsavedAtLoopTail => SavedForThisTarget

\* C14 amended: after a failed save no temp file remains unless its removal
\* raised, the destination is as before, the crawl goes on, and the next
\* target that returns a result issues a checkpoint write of the whole batch
C14_NextResultRetries ==
    /\ FailedSaveLeavesNoTempUnlessRemovalRaised
    /\ CrawlGoesOn
    /\ (UnsavedAtLoopTail /\ outcomes[Len(outcomes)].kind = "scraped") =>
          SavedForThisTarget

\* the first checkpoint write failed and the second target's write put the
\* whole batch of two at the checkpoint path
C14_Witness ==
    /\ entry = "multiple"
    /\ pc = "loop_tail"
    /\ Len(results) = 2
    /\ sv.status = "saved"
    /\ sv.before = Absent
    /\ fs[CheckpointFile] = File(Serialize(results))
    /\ fs[TempOf(CheckpointFile)] = Absent

\* C19: on every path out of main after the scraper is constructed, close()
\* has been invoked exactly once when main is left, and not before
C19_CloseExactlyOnce ==
    entry \in {"single", "multiple"} =>
        /\ pc = "exit" => world.closes = 1
        /\ pc # "exit" => world.closes = 0

\* main was left through its except branch after start() raised half way,
\* and close() ran once on the stages that had been brought up
C19_Witness ==
    /\ entry = "multiple"
    /\ pc = "exit"
    /\ world.closes = 1
    /\ sess.browser # 0
    /\ sess.context = 0
    /\ sm_ret.status = "none"

\* a save_data call made directly has returned after replacing the file
SavedDirectly == entry = "save" /\ pc = "save_done" /\ sv.status = "saved"

\* the call that returned was the second one and the first had succeeded:
\* the destination it found is the first call's output, not the earlier file
SecondOfTwo ==
    SavedDirectly /\ saves = 2 /\ sv.before \notin {Absent, EarlierFile}

\* C12: saving the same batch twice to the same path gives byte-identical
\* destination content both times (the serialization of the batch), and
\* after the second save the destination is the only file there is
C12_SaveTwiceIdentical ==
    /\ SavedDirectly => fs[sv.filename] = File(Serialize(sv.data))
    /\ SecondOfTwo =>
          /\ fs[sv.filename] = sv.before
          /\ \A p \in Paths \ {sv.filename} : fs[p] = Absent

\* a batch of two has been saved twice to the same path
C12_Witness ==
    /\ SecondOfTwo
    /\ Len(sv.data) = MaxBatch
    /\ fs[sv.filename] = sv.before
    /\ fs[TempOf(sv.filename)] = Absent

\* C15: close() is idempotent: no close() performs a teardown call on a stage
\* that was already released, and a close() right after a close() raises
\* nothing
C15_CloseIdempotent ==
    /\ world.stale = 0
    /\ ~world.reclose_raised

\* the launches that still have a browser process running
LiveBrowsers == {g \in 1..world.launched : <<"browser", g>> \in world.live}

\* C16: at most one session is live at any time, and every running browser
\* is one that close() will release through the handles the instance holds
C16_AtMostOneSession ==
    /\ Cardinality(LiveBrowsers) <= 1
    /\ \A g \in LiveBrowsers : sess.browser = g \/ sess.playwright = g

\* C17: save_session performs no storage-state operation while no session is
\* live, before any start and after close() alike
C17_SaveStateNoOp ==
    world.idle_state_ops = 0

\* scrape_hotel is past its statistics step
PastStats ==
    /\ entry \in {"single", "multiple"}
    /\ pc \in {"collect", "next_page", "hotel_done"}

\* C21: a failed Overall Statistics query does not abort scrape_hotel: the
\* statistics of the result are empty, the collection loop still runs (it
\* makes its item query whenever the quota is positive), and exactly one
\* statistics query is made per target
C21_StatsFailureNonFatal ==
    /\ PastStats => h.stats_queries = 1
    /\ (PastStats /\ h.stats = "failed") =>
          /\ h.overall_stats = EmptyStats
          /\ pc = "hotel_done" =>
                /\ HotelResult(h).overall_statistics = EmptyStats
                /\ h.stop \in {"while", "empty", "quota", "no_next", "error"}
                /\ h.max_reviews > 0 => h.queries >= 1
                /\ h.max_reviews <= 0 => h.stop = "while"

\* the statistics query failed and the collection loop went on to fill the
\* quota
C21_Witness ==
    /\ pc = "hotel_done"
    /\ h.stats = "failed"
    /\ h.stats_queries = 1
    /\ h.stop = "quota"
    /\ Len(h.all_reviews) >= 1

\* C24: when the accumulated count reaches the quota after a page is
\* collected, collection stops with no next-page click and no further item
\* query; a page advance is attempted only after a non-empty page that left
\* the count below the quota
C24_QuotaStopsBeforeAdvance ==
    /\ (PastStats /\ pc = "next_page") =>
          /\ h.last > 0
          /\ Len(h.all_reviews) < h.max_reviews
          /\ h.clicks = h.queries - 1
    /\ (PastStats /\ pc = "hotel_done" /\ h.stop = "quota") =>
          /\ h.last > 0
          /\ Len(h.all_reviews) >= h.max_reviews
          /\ Len(h.all_reviews) - h.last < h.max_reviews
          /\ h.clicks = h.queries - 1
    /\ (PastStats /\ pc = "hotel_done" /\ h.stop = "empty") =>
          /\ h.last = 0
          /\ h.clicks = h.queries - 1

\* the quota was reached on the second page: two queries, one page advance
C24_Witness ==
    /\ pc = "hotel_done"
    /\ h.stop = "quota"
    /\ h.queries = 2
    /\ h.clicks = 1
    /\ Len(h.all_reviews) > h.max_reviews

\* C27: a failure at any step of the activation gesture is swallowed: the
\* navigate attempt in which it happened reports success, and it is neither
\* counted as a failed attempt nor followed by a retry
C27_GestureFailureSwallowed ==
    nav.gesture = "failed" =>
        /\ pc = "nav_done"
        /\ nav.result = "true"
        /\ nav.gotos = nav.fails + 1
        /\ nav.waits = nav.fails

\* the gesture failed on the second attempt, after one failed goto, and
\* navigate returned True
C27_Witness ==
    /\ pc = "nav_done"
    /\ nav.gesture = "failed"
    /\ nav.result = "true"
    /\ nav.gotos = 2
    /\ nav.fails = 1

\* C26: once navigation of a target has succeeded, scrape_hotel returns a
\* result and never raises
C26_AlwaysReturnsAfterNavigation ==
    h.left # "raised"

\* the reveal step of scrape_hotel has just been made
Revealed == pc = "stats" /\ hp.fn = "reveal"

\* the waits the reveal step made: network quiescence, or network quiescence
\* timing out and then the fixed delay
SettledOnNetwork ==
    hp.ops \in {<<Op("wait_for_load_state", "ok")>>,
                <<Op("wait_for_load_state", "raise"), Op("wait_for_timeout", "ok")>>}

\* C22: after the reveal attempt, whether or not the click succeeded,
\* scrape_hotel waits for network quiescence (with the fixed delay as
\* fallback) and then goes on to the statistics query
C22_WaitsAfterReveal ==
    /\ pc = "stats" => Revealed
    /\ Revealed => SettledOnNetwork
    /\ \A k \in 1..Len(outcomes) : outcomes[k].kind # "reveal_failed"

\* a direct call of helper fn has run to its end
Done(fn) == entry = "helper" /\ pc = "helper_done" /\ hp.fn = fn

\* the names of the calls of a log, and the log entries with a name in S
Names(ops) == [k \in 1..Len(ops) |-> ops[k][1]]
Only(ops, S) == SelectSeq(ops, LAMBDA o : o[1] \in S)
IsPrefix(a, b) == Len(a) <= Len(b) /\ a = SubSeq(b, 1, Len(a))

\* C28 as stated: dismissOverlay (_turn_off_overlay, turn_off_overlay_if_any)
\* acts only when an overlay is detected and visible; its strategies come in
\* the order click, Escape, style mutation, each one only after the actions
\* of all earlier ones failed, none after one succeeded; with no overlay
\* detected nothing is done; no error leaves it
C28_OverlayStrictOrder ==
    (Done("_turn_off_overlay") \/ Done("turn_off_overlay_if_any")) =>
        LET acts == Only(hp.ops, {"backdrop.click", "Escape", "evaluate(style)"})
        IN  /\ ~hp.raised
            /\ acts # <<>> <=> OverlayDetected(hp.env)
            /\ ~OverlayDetected(hp.env) => IsPrefix(hp.ops, DetectOverlay(hp.env))
            /\ IsPrefix(Names(acts), <<"backdrop.click", "Escape", "evaluate(style)">>)
            /\ \A k \in 1..Len(acts) - 1 : acts[k][2] = "raise"

\* C29: try_click_with_strategies tries the normal click (possible only on a
\* visible and enabled locator) before the forced click, tries the forced
\* click only when no normal click succeeded, returns True exactly when one
\* of the clicks it made succeeded, and never raises
C29_ResilientClick ==
    Done("try_click_with_strategies") =>
        LET clicks == Only(hp.ops, {"click", "click(force)"})
        IN  /\ ~hp.raised
            /\ hp.ret \in {"True", "False"}
            /\ hp.ret = "True" <=> \E k \in 1..Len(clicks) : clicks[k][2] = "ok"
            /\ IsPrefix(Names(clicks), <<"click", "click(force)">>)
                 \/ Names(clicks) = <<"click(force)">>
            /\ Len(clicks) = 2 => clicks[1][2] = "raise"
            /\ Op("click", "raise") \in {hp.ops[k] : k \in 1..Len(hp.ops)}
                 => Len(clicks) = 2
            /\ Names(clicks) = <<"click(force)">>
                 => "no" \in {hp.env.visible, hp.env.enabled}
            /\ (clicks # <<>> /\ clicks[1][1] = "click")
                 => hp.env.visible = "yes" /\ hp.env.enabled = "yes"

\* the normal click raised and the forced click went through
C29_Witness ==
    /\ Done("try_click_with_strategies")
    /\ Only(hp.ops, {"click", "click(force)"}) =
         <<Op("click", "raise"), Op("click(force)", "ok")>>
    /\ hp.ret = "True"

\* the calls of click_read_all_reviews in the order of its text
RecoveryChain ==
    <<"try_click(text)", "try_click(attr)", "turn_off_overlay_if_any",
      "try_click(text)", "try_click(attr)", "evaluate(click)">>

\* C30 as stated: click_read_all_reviews dismisses the overlay only after
\* both first resilient clicks failed, retries the resilient clicks once
\* after that, tries the script click only after the retry failed, stops at
\* the first strategy that succeeds, and returns True exactly when one
\* succeeded and False otherwise (the waits between the strategies are left
\* out of the order that is compared)
C30_RecoveryChainOrder ==
    Done("click_read_all_reviews") =>
        LET chain == Only(hp.ops, {RecoveryChain[k] : k \in 1..Len(RecoveryChain)})
        IN  /\ ~hp.raised
            /\ hp.ret \in {"True", "False"}
            /\ chain # <<>>
            /\ IsPrefix(Names(chain), RecoveryChain)
            /\ \A k \in 1..Len(chain) - 1 : chain[k][2] \notin {"True", "true"}
            /\ hp.ret = "True" <=> chain[Len(chain)][2] \in {"True", "true"}
            /\ hp.ret = "False" => Len(chain) = Len(RecoveryChain)

\* C23 as stated: the reveal step of scrape_hotel (_click_read_all_reviews)
\* reports failure only after a failed click, an overlay dismissal, a second
\* click and a DOM-level script click
C23_RevealFollowsRecoveryChain ==
    (Done("_click_read_all_reviews") /\ hp.ret = "False") =>
        /\ Len(Only(hp.ops, {"click(force)"})) = 2
        /\ Only(hp.ops, {"evaluate(click)"}) # <<>>

\* C25 as stated: _click_next_page goes through the candidates in index
\* order, clicks a candidate only after finding it visible, returns True at
\* the first click that succeeds and clicks no later candidate, goes on to
\* the next candidate after a click that raised, and returns False without
\* an error when every candidate was found not visible or had its click fail
\* (the waits that follow a click are left out of the calls compared)
C25_NextPageCandidates ==
    Done("_click_next_page") =>
        LET ops == Only(hp.ops, {"count", "is_visible", "click"})
            cands == hp.env.cands
            n == Len(ops)
        IN  /\ \A a \in 2..n : \A b \in a..n : ops[a][2] <= ops[b][2]
            /\ \A a \in 1..n : ops[a][1] = "click" =>
                  /\ a > 1
                  /\ ops[a - 1] = <<"is_visible", ops[a][2], "yes">>
                  /\ cands[ops[a][2]].visible = "yes"
            /\ \A a \in 1..n : (ops[a][1] = "click" /\ ops[a][3] = "ok") =>
                  a = n /\ hp.ret = "True" /\ ~hp.raised
            /\ hp.ret = "True" => (ops[n][1] = "click" /\ ops[n][3] = "ok")
            /\ \A a \in 1..n : (ops[a][1] = "click" /\ ops[a][3] = "raise") =>
                  IF ops[a][2] < Len(cands)
                    THEN a < n /\ ops[a + 1][1] = "is_visible"
                               /\ ops[a + 1][2] = ops[a][2] + 1
                    ELSE a = n /\ hp.ret = "False" /\ ~hp.raised
            /\ hp.raised =>
                  (ops[n][1] \in {"count", "is_visible"} /\ ops[n][3] = "raise")
            /\ (hp.env.count_ok /\ \A k \in 1..Len(cands) :
                    \/ cands[k].visible = "no"
                    \/ cands[k].visible = "yes" /\ ~cands[k].click_ok)
                  => (hp.ret = "False" /\ ~hp.raised)
            /\ (hp.env.count_ok /\ \A k \in 1..Len(cands) : cands[k].visible # "raise")
                  => (hp.ret = "True" <=>
                        \E k \in 1..Len(cands) :
                            cands[k].visible = "yes" /\ cands[k].click_ok)

\* the operations a run can have in progress: a navigation, the extraction
\* of a target, a save
NavActive == nav.ctx # "none"
ExtractActive == h.url # <<>>
SaveActive == sv.status = "running"

\* C31: in scrape_multiple the targets are taken one at a time in listing
\* order on one session: while target i is navigated or extracted every
\* earlier record has ended (its extraction returned or raised, and the
\* checkpoint save issued for it has returned), and a save never runs
\* together with a navigation or an extraction
C31_OneTargetAtATime ==
    entry = "multiple" =>
        /\ ~(SaveActive /\ (NavActive \/ ExtractActive))
        /\ (InTarget \/ pc = "loop") =>
              /\ Len(outcomes) = i - 1
              /\ \A k \in 1..Len(outcomes) :
                    /\ outcomes[k].idx = k
                    /\ outcomes[k].link = hotels_list[k].hotel_link
              /\ saves = Len(SelectSeq(outcomes, IsScraped))
              /\ saves > 0 => sv.status \in {"saved", "failed"}
        /\ InTarget =>
              /\ h.url = ResolveUrl(hotels_list[i].hotel_link)
              /\ world.launched = 1
              /\ sess.page = 1

\* the second target is being extracted; the first was scraped and its
\* checkpoint save has returned
C31_Witness ==
    /\ InTarget
    /\ pc = "collect"
    /\ i = 2
    /\ outcomes[1].kind = "scraped"
    /\ sv.status = "saved"

\* the collection loop of scrape_hotel has been entered (or skipped)
InCollection == pc \in {"collect", "next_page", "hotel_done"} /\ h.left = "none"

\* C32: the collection loop terminates whatever the page and the query do:
\* every iteration that does not stop the loop adds at least one item, so
\* with quota Q >= 1 there are at most Q item queries and at most Q - 1
\* page advances, and with Q = 0 there is no item query at all
C32_CollectionBounded ==
    InCollection =>
        /\ h.max_reviews >= 1 =>
              /\ h.queries <= h.max_reviews
              /\ h.clicks <= h.max_reviews - 1
        /\ h.max_reviews <= 0 => (h.queries = 0 /\ h.clicks = 0)
        /\ h.clicks <= h.queries
        /\ h.stop = "none" =>
              /\ Len(h.all_reviews) >= h.queries
              /\ Len(h.all_reviews) >= h.clicks
              /\ pc = "collect" => h.clicks = h.queries
              /\ pc = "next_page" =>
                    (h.clicks = h.queries - 1 /\ Len(h.all_reviews) < h.max_reviews)

\* quota 2 was used up by two queries of one item each, with one advance
C32_Witness ==
    /\ pc = "hotel_done"
    /\ h.max_reviews = 2
    /\ h.queries = 2
    /\ h.clicks = 1
    /\ h.stop = "quota"

\* scrape_hotel has just raised for a target of scrape_multiple and the
\* except branch of the loop body is done
TargetRaised ==
    /\ entry = "multiple"
    /\ pc = "loop_tail"
    /\ outcomes # <<>>
    /\ outcomes[Len(outcomes)].kind \in {"nav_failed", "title_failed",
                                          "reveal_failed"}

\* C33: when scrape_hotel raised for a target of scrape_multiple, the batch
\* holds exactly the results of the earlier targets, no save was issued for
\* the target, and the checkpoint file and its temp file are what the last
\* save before the target left (nothing when there was none)
C33_RaisedTargetLeavesBatch ==
    TargetRaised =>
        LET earlier == SubSeq(outcomes, 1, Len(outcomes) - 1)
        IN  /\ results = DataOf(earlier)
            /\ saves = Len(SelectSeq(earlier, IsScraped))
            /\ ~SaveActive
            /\ (saves = 0 \/ sv.caller # "raised") =>
                  fs[TempOf(CheckpointFile)] = Absent
            /\ saves = 0 => (sv = SvIdle /\ fs[CheckpointFile] = Absent)
            /\ saves > 0 =>
                  /\ sv.data = results
                  /\ sv.filename = CheckpointFile
                  /\ fs[CheckpointFile] =
                        IF sv.status = "saved" THEN File(Serialize(results))
                        ELSE sv.before

\* the first target was scraped and checkpointed, the second one raised
C33_Witness ==
    /\ TargetRaised
    /\ Len(outcomes) = 2
    /\ outcomes[2].kind = "title_failed"
    /\ Len(results) = 1
    /\ fs[CheckpointFile] = File(Serialize(results))

\* the positions among the first n records of the listing that carry a link
LinkedAmongFirst(n) ==
    {k \in 1..Len(FirstTargets(hotels_list, n)) : hotels_list[k].hotel_link # NoLink}

\* C37: a record without a link among the first maxTargets is skipped: the
\* step that skips it leaves navigation, extraction, batch, saves and files
\* alone and goes straight to the next record (no pause); the record still
\* takes one of the maxTargets slots, so for maxTargets >= 0 the batch is
\* never longer than min(maxTargets, number of records) and the returned
\* batch has one result per linked record among the first maxTargets whose
\* extraction did not raise
C37_SkippedRecordTakesSlot ==
    /\ [](((ListingKnown /\ max_hotels >= 0) =>
            /\ Len(results) <= Min(max_hotels, Len(hotels_list))
            /\ Len(outcomes) <= Min(max_hotels, Len(hotels_list))
            /\ \A k \in 1..Len(outcomes) :
                  /\ outcomes[k].idx = k
                  /\ outcomes[k].kind = "skipped" <=> hotels_list[k].hotel_link = NoLink
            /\ sm_ret.status = "returned" =>
                  /\ Len(outcomes) = Min(max_hotels, Len(hotels_list))
                  /\ Len(sm_ret.value) =
                        Cardinality({k \in LinkedAmongFirst(max_hotels) :
                                        outcomes[k].kind = "scraped"})))
    /\ [][(entry = "multiple" /\ pc = "loop" /\ i <= Len(target_hotels)
             /\ target_hotels[i].hotel_link = NoLink) =>
            /\ pc' = "loop"
            /\ i' = i + 1
            /\ UNCHANGED <<nav, h, results, sv, fs, saves, sess, world>>]_vars

\* the first of two records had no link, the second was scraped, and the
\* batch returned under maxTargets = 2 holds one result
C37_Witness ==
    /\ sm_ret.status = "returned"
    /\ max_hotels = 2
    /\ Len(outcomes) = 2
    /\ outcomes[1].kind = "skipped"
    /\ outcomes[2].kind = "scraped"
    /\ Len(sm_ret.value) = 1

\* the listing query of scrape_multiple raised and `return []` was taken
ListingRaised == entry = "multiple" /\ sm_ret.status = "returned" /\ i = 0

\* C34: when the listing query raises, scrape_multiple processes no target
\* and returns an empty batch; main then calls save_data with the empty
\* batch on the output path, and once that save has gone through the
\* complete content an earlier run left there is replaced by the empty list
C34_ListingFailureOverwrites ==
    ListingRaised =>
        /\ sm_ret.value = <<>>
        /\ results = <<>>
        /\ outcomes = <<>>
        /\ saves = 0
        /\ h = HIdle
        /\ fs[CheckpointFile] = Absent
        /\ pc \in {"main_save", "save_open", "save_write", "crashed",
                   "main_except", "main_finally", "exit"}
        /\ pc # "main_save" =>
              /\ sv.data = <<>>
              /\ sv.filename = OutputPath
              /\ sv.before = PreviousOutput
              /\ Complete(sv.before) /\ sv.before.exists
        /\ pc \in {"main_except", "main_finally", "exit"} =>
              sv.status \in {"saved", "failed"}
        /\ pc = "main_except" => sv.caller = "raised"
        /\ sv.status = "saved" =>
              /\ fs[OutputPath] = File(Serialize(<<>>))
              /\ fs[OutputPath] # PreviousOutput

\* the run is over: the listing query raised and the earlier output was
\* replaced by an empty list
C34_Witness ==
    /\ ListingRaised
    /\ pc = "exit"
    /\ sv.before = PreviousOutput
    /\ sv.status = "saved"
    /\ fs[OutputPath] = File(Serialize(<<>>))

\* the latest call was a close() that raised
CloseRaised == world.last = "close" /\ world.raised

\* C35: when a teardown call inside close() raises, close() makes no later
\* teardown call and the error leaves close(); on the first close() of an
\* instance the stage whose teardown raised and every later stage (browser,
\* automation engine) are therefore still live afterwards
C35_FailedTeardownSkipsRest ==
    world.last = "close" =>
        LET ops == CloseOps(sess)
            k == Len(world.torn)
        IN  /\ IsPrefix(world.torn, ops)
            /\ ~world.raised => world.torn = ops
            /\ world.raised =>
                  /\ k >= 1
                  /\ world.closes = 1 =>
                        \A j \in k..Len(ops) : <<ops[j], sess[ops[j]]>> \in world.live

\* closing the context raised on the first close(): the browser and the
\* engine were not touched and are still live
C35_Witness ==
    /\ CloseRaised
    /\ world.closes = 1
    /\ world.torn = <<"context">>
    /\ sess.browser # 0
    /\ <<"browser", sess.browser>> \in world.live
    /\ <<"playwright", sess.playwright>> \in world.live

\* the job posts the extractions of the visited pages returned, in order
RECURSIVE JobsOf(_, _)
JobsOf(pages, k) ==
    IF k > Len(pages) THEN <<>>
    ELSE (IF pages[k].kind = "posts" THEN PageItems(k, pages[k].n) ELSE <<>>)
         \o JobsOf(pages, k + 1)

\* the click went through and the page url changed
Advanced(c) == c[1] = "clicked" /\ c[2]

\* C36: in scrape_jobs a page whose extraction failed or gave no job post
\* adds nothing to the result, and whatever the extraction gave the
\* next-page click is attempted; the loop is left only after a click that
\* failed or left the url unchanged, and every click before that one moved
\* to a further page, however many pages or job posts there were
C36_EmptyPageKeepsPaginating ==
    entry = "jobs" =>
        /\ jb.all_jobs = JobsOf(jb.pages, 1)
        /\ pc = "jobs_raised" => jb.pages = <<>>
        /\ pc = "jobs_extract" =>
              (Len(jb.pages) = jb.page_num - 1 /\ Len(jb.clicks) = Len(jb.pages))
        /\ pc = "jobs_click" =>
              (Len(jb.pages) = jb.page_num /\ Len(jb.clicks) = Len(jb.pages) - 1)
        /\ pc \in {"jobs_extract", "jobs_click"} =>
              /\ jb.has_next_page
              /\ \A k \in 1..Len(jb.clicks) : Advanced(jb.clicks[k])
        /\ pc = "jobs_done" =>
              /\ ~jb.has_next_page
              /\ Len(jb.pages) = jb.page_num
              /\ Len(jb.clicks) = Len(jb.pages)
              /\ ~Advanced(jb.clicks[Len(jb.clicks)])
              /\ \A k \in 1..(Len(jb.clicks) - 1) : Advanced(jb.clicks[k])

\* every page up to the last one followed failed or was empty, and the loop
\* still went on to a further page
C36_Witness ==
    /\ entry = "jobs"
    /\ pc = "jobs_extract"
    /\ jb.page_num = MaxPages + 1
    /\ jb.all_jobs = <<>>
    /\ \E k \in 1..Len(jb.pages) : jb.pages[k] = JobPage("raise", 0)
    /\ \E k \in 1..Len(jb.pages) : jb.pages[k] = JobPage("posts", 0)

====
